---- MODULE Spec2Model ----
(***************************************************************************)
(* State-machine model of the R2C2 conversation engine                     *)
(* (src/server/r2c2/engine.py): the four-phase machine, its time and       *)
(* emotion based transition policy and the utterance bookkeeping; of the   *)
(* processor that drives it (src/server/processors/r2c2_processor.py); and *)
(* of the audio pipeline that feeds it emotions                            *)
(* (src/server/r2c2/emotion_detector.py,                                   *)
(* src/server/processors/emotion_processor.py).                            *)
(* Times are whole seconds; datetime.now() is the variable now.            *)
(***************************************************************************)
EXTENDS Integers, Sequences, FiniteSets, TLC

VARIABLES
    now,               \* the wall clock read by datetime.now()
    current_phase,     \* R2C2State.current_phase
    phase_start_time,  \* R2C2State.phase_start_time
    user_reactions,    \* R2C2State.user_reactions
    content_themes,    \* R2C2State.content_themes
    development_plan,  \* R2C2State.development_plan (NoPlan = None)
    emotional_states,  \* R2C2State.emotional_states
    phase_history,     \* R2C2State.phase_history
    emotion_history,   \* EmotionDetector.emotion_history
    last_emotion,      \* EmotionProcessor._last_emotion
    last_emotion_time, \* EmotionProcessor._last_emotion_time
    utterance,         \* the arguments of the last record_user_response
    session_summary,   \* sessions.session_summary: the stored checkpoint
    last_phase,        \* R2C2Processor._last_phase
    phase_prompt_injected, \* R2C2Processor._phase_prompt_injected
    output,            \* server messages sent and LLM frames processed
    current_session_id, \* bot.py global current_session_id (0 = None)
    r2c2_engine,       \* bot.py global r2c2_engine (0 = None)
    bots,              \* the run_bot calls of the process
    rows,              \* the rows of table sessions
    db_calls,          \* the database calls of the handler that ran last
    op,                \* the engine operation that ran last
    ret                \* the value that operation returned

vars == <<now, current_phase, phase_start_time, user_reactions, content_themes,
          development_plan, emotional_states, phase_history, emotion_history,
          last_emotion, last_emotion_time, utterance, session_summary,
          last_phase, phase_prompt_injected, output, current_session_id,
          r2c2_engine, bots, rows, db_calls, op, ret>>

\* The fields of R2C2State (the conversation state).
state == <<current_phase, phase_start_time, user_reactions, content_themes,
           development_plan, emotional_states, phase_history>>

\* The state of the audio pipeline (EmotionDetector and EmotionProcessor).
audio == <<emotion_history, last_emotion, last_emotion_time>>

\* The fields of R2C2Processor, and what it has sent and processed.
processor == <<last_phase, phase_prompt_injected, output>>

\* The module globals of bot.py, its run_bot calls and the database.
process == <<current_session_id, r2c2_engine, bots, rows, db_calls>>

\* What passes between the engine and its callers.
io == <<utterance, session_summary, processor, process>>

-----------------------------------------------------------------------------
(* Bounds of the model *)

MaxRecords == 2      \* emotions, reactions and goals the callers record in a session
MaxSample == 3       \* emotion states of a drawn emotion history
MaxHistory == 4      \* calls of transition_to_next_phase in a session
MaxStored == 2       \* emotion states that reach a driven engine
MaxDetected == 4     \* emotion states of a drawn detector history
MaxClassified == 1   \* audio buffers classified from a grid of features
MaxTexts == 1        \* raw texts kept as reactions and goals when every text is tried
MaxFrames == 2       \* LLM frames a watched processor is given
MaxHeard == 3        \* audio buffers analysed in a session that is listened to

\* Clock readings at which the engine is called in a session.
Instants == {0, 130, 730}

\* Emotions the callers report in a session.
SessionEmotions == {"neutral", "sad"}

-----------------------------------------------------------------------------
(* Types and class constants *)

RELATIONSHIP == "relationship"
REACTION == "reaction"
CONTENT == "content"
COACHING == "coaching"

R2C2Phase == {RELATIONSHIP, REACTION, CONTENT, COACHING}

phase_order == <<RELATIONSHIP, REACTION, CONTENT, COACHING>>

\* phase_order.index(p)
PhaseIndex(p) == CHOOSE i \in DOMAIN phase_order : phase_order[i] = p

Emotions == {"neutral", "defensive", "frustrated", "sad", "anxious", "positive"}

RELATIONSHIP_MIN_DURATION == 120
REACTION_MIN_DURATION == 180
CONTENT_MIN_DURATION == 240
RELATIONSHIP_EARLY_DURATION == 90
REACTION_MAX_DURATION == 600
CONTENT_MAX_DURATION == 720
READINESS_WINDOW == 60
READINESS_SAMPLE == 3
CONTENT_MIN_THEMES == 2

DEFENSIVE_EMOTIONS == {"defensive", "frustrated", "anxious"}
READY_EMOTIONS == {"neutral", "positive"}

NoEmotion == [emotion |-> "none", timestamp |-> -1]
NoTime == -1
NoPlan == [exists |-> FALSE, created_at |-> -1, goals |-> <<>>]
\* record_user_response was not called yet; otherwise utterance is
\* <<response, emotion>>.
NoUtterance == <<>>

\* The run_bot calls a process serves.
Bots == {1, 2}

\* No run_bot was called yet: the globals are None, the table is empty.
NoProcess ==
    /\ current_session_id = 0
    /\ r2c2_engine = 0
    /\ bots = [b \in Bots |->
                  [stage |-> "idle", session_id |-> 0,
                   engine |-> [current_phase |-> "none",
                               phase_start_time |-> 0,
                               phase_history |-> <<>>]]]
    /\ rows = <<>>
    /\ db_calls = <<>>

\* The column is NULL or holds an empty object: both are falsy.
NoSummary == <<>>

\* EmotionState(emotion=e, timestamp=t); confidence and audio features are
\* never read by the engine.
EmotionState(e, t) == [emotion |-> e, timestamp |-> t]

-----------------------------------------------------------------------------
(* Text: a Python str is the sequence of its characters *)

UpperCase ==
    <<"A", "B", "C", "D", "E", "F", "G", "H", "I", "J", "K", "L", "M",
      "N", "O", "P", "Q", "R", "S", "T", "U", "V", "W", "X", "Y", "Z">>

LowerCase ==
    <<"a", "b", "c", "d", "e", "f", "g", "h", "i", "j", "k", "l", "m",
      "n", "o", "p", "q", "r", "s", "t", "u", "v", "w", "x", "y", "z">>

LowerChar(c) ==
    IF \E i \in DOMAIN UpperCase : UpperCase[i] = c
    THEN LowerCase[CHOOSE i \in DOMAIN UpperCase : UpperCase[i] = c]
    ELSE c

\* str.lower()
Lower(text) == [i \in DOMAIN text |-> LowerChar(text[i])]

\* word in text (substring test)
Contains(text, word) ==
    \E i \in 1..(Len(text) - Len(word) + 1) :
        SubSeq(text, i, i + Len(word) - 1) = word

\* any(word in text for word in words)
ContainsAny(text, words) == \E i \in DOMAIN words : Contains(text, words[i])

\* x in list
InList(x, list) == \E i \in DOMAIN list : list[i] = x

KW_communication ==
    <<"c", "o", "m", "m", "u", "n", "i", "c", "a", "t", "i", "o", "n">>
KW_leadership == <<"l", "e", "a", "d", "e", "r", "s", "h", "i", "p">>
KW_collaboration ==
    <<"c", "o", "l", "l", "a", "b", "o", "r", "a", "t", "i", "o", "n">>
KW_feedback == <<"f", "e", "e", "d", "b", "a", "c", "k">>
KW_delegation == <<"d", "e", "l", "e", "g", "a", "t", "i", "o", "n">>
KW_listening == <<"l", "i", "s", "t", "e", "n", "i", "n", "g">>
KW_empathy == <<"e", "m", "p", "a", "t", "h", "y">>
KW_decision_making ==
    <<"d", "e", "c", "i", "s", "i", "o", "n", "-", "m", "a", "k", "i",
      "n", "g">>
KW_accountability ==
    <<"a", "c", "c", "o", "u", "n", "t", "a", "b", "i", "l", "i", "t",
      "y">>
KW_follow_through ==
    <<"f", "o", "l", "l", "o", "w", "-", "t", "h", "r", "o", "u", "g",
      "h">>
KW_organization ==
    <<"o", "r", "g", "a", "n", "i", "z", "a", "t", "i", "o", "n">>
KW_planning == <<"p", "l", "a", "n", "n", "i", "n", "g">>

\* keywords of _extract_content_themes, in the order of the list
keywords ==
    <<KW_communication, KW_leadership, KW_collaboration, KW_feedback,
      KW_delegation, KW_listening, KW_empathy, KW_decision_making,
      KW_accountability, KW_follow_through, KW_organization, KW_planning>>

START_WORDS ==
    <<<<"s", "t", "a", "r", "t">>,
      <<"b", "e", "g", "i", "n">>,
      <<"i", "n", "i", "t", "i", "a", "t", "e">>>>

STOP_WORDS ==
    <<<<"s", "t", "o", "p">>,
      <<"q", "u", "i", "t">>,
      <<"c", "e", "a", "s", "e">>,
      <<"a", "v", "o", "i", "d">>>>

CONTINUE_WORDS ==
    <<<<"c", "o", "n", "t", "i", "n", "u", "e">>,
      <<"k", "e", "e", "p">>,
      <<"m", "a", "i", "n", "t", "a", "i", "n">>>>

GOAL_MIN_LENGTH == 20

\* Utterances the user says.
TEXT_EMPTY == <<>>
TEXT_BLANK == <<" ", " ", " ">>
TEXT_THEMES ==
    <<"P", "l", "a", "n", "n", "i", "n", "g", " ", "f", "e", "e", "d",
      "b", "a", "c", "k">>
TEXT_GOAL ==
    <<"I", " ", "w", "i", "l", "l", " ", "s", "t", "a", "r", "t", " ",
      "l", "i", "s", "t", "e", "n", "i", "n", "g">>
TEXT_SHORT == <<"s", "t", "o", "p", " ", "i", "t">>

Utterances == {TEXT_EMPTY, TEXT_BLANK, TEXT_THEMES, TEXT_GOAL, TEXT_SHORT}

\* Utterances the user says in a session.
SessionUtterances == {TEXT_THEMES, TEXT_GOAL}

-----------------------------------------------------------------------------
(* Queries *)

\* get_time_in_phase at clock reading t
TimeInPhase(start, t) == t - start

\* get_recent_emotions(window_seconds) at clock reading t
RecentEmotions(states, window, t) ==
    SelectSeq(states, LAMBDA e : e.timestamp >= t - window)

\* recent_emotions[-3:] if len(recent_emotions) >= 3 else recent_emotions
RecentSample(recent) ==
    IF Len(recent) >= READINESS_SAMPLE
    THEN SubSeq(recent, Len(recent) - READINESS_SAMPLE + 1, Len(recent))
    ELSE recent

ReadyCount(sample) ==
    Cardinality({i \in DOMAIN sample : sample[i].emotion \in READY_EMOTIONS})

\* is_emotionally_ready_for_transition at clock reading t
\* (ready_count >= len(sample) / 2 is a float comparison)
IsEmotionallyReady(states, t) ==
    LET recent == RecentEmotions(states, READINESS_WINDOW, t)
        sample == RecentSample(recent)
    IN  IF recent = <<>>
        THEN FALSE
        ELSE 2 * ReadyCount(sample) >= Len(sample)

\* RelationshipRule without the early, readiness based exit
RelationshipRule_NoEarlyExit(time_in_phase, states, t) ==
    time_in_phase >= RELATIONSHIP_MIN_DURATION

\* should_transition, the Relationship -> Reaction branch
RelationshipRule(time_in_phase, states, t) ==
    \/ time_in_phase >= RELATIONSHIP_MIN_DURATION
    \/ /\ time_in_phase >= RELATIONSHIP_EARLY_DURATION
       /\ IsEmotionallyReady(states, t)

\* ReactionRule without the ten minute ceiling
ReactionRule_NoCeiling(time_in_phase, states, t) ==
    /\ time_in_phase >= REACTION_MIN_DURATION
    /\ IsEmotionallyReady(states, t)

\* should_transition, the Reaction -> Content branch
ReactionRule(time_in_phase, states, t) ==
    \/ /\ time_in_phase >= REACTION_MIN_DURATION
       /\ IsEmotionallyReady(states, t)
    \/ time_in_phase >= REACTION_MAX_DURATION

\* ContentRule satisfied by a single theme
ContentRule_OneTheme(time_in_phase, themes) ==
    \/ /\ time_in_phase >= CONTENT_MIN_DURATION
       /\ Len(themes) >= 1
    \/ time_in_phase >= CONTENT_MAX_DURATION

\* ContentRule without the ceiling of 720 s
ContentRule_NoCeiling(time_in_phase, themes) ==
    /\ time_in_phase >= CONTENT_MIN_DURATION
    /\ Len(themes) >= CONTENT_MIN_THEMES

\* should_transition, the Content -> Coaching branch
ContentRule(time_in_phase, themes) ==
    \/ /\ time_in_phase >= CONTENT_MIN_DURATION
       /\ Len(themes) >= CONTENT_MIN_THEMES
    \/ time_in_phase >= CONTENT_MAX_DURATION

\* CoachingRule with a floor like the one of the Content phase
CoachingRule_Floor(time_in_phase) == time_in_phase >= CONTENT_MIN_DURATION

\* CoachingRule with a ceiling like the one of the Content phase
CoachingRule_Ceiling(time_in_phase) == time_in_phase >= CONTENT_MAX_DURATION

\* should_transition, the Coaching phase: no branch, falls to return False
CoachingRule(time_in_phase) == FALSE

\* The decision of should_transition, after the optional append.
ShouldTransitionDecision(phase, time_in_phase, states, themes, t) ==
    CASE phase = RELATIONSHIP -> RelationshipRule(time_in_phase, states, t)
      [] phase = REACTION -> ReactionRule(time_in_phase, states, t)
      [] phase = CONTENT -> ContentRule(time_in_phase, themes)
      [] phase = COACHING -> CoachingRule(time_in_phase)

\* NextPhase with an index that is off by one: it skips a phase
NextPhase_Skip(old_phase) ==
    LET current_index == PhaseIndex(old_phase)
    IN  IF current_index + 1 < Len(phase_order)
        THEN phase_order[current_index + 2]
        ELSE phase_order[Len(phase_order)]

\* The phase transition_to_next_phase moves to from old_phase.
NextPhase(old_phase) ==
    LET current_index == PhaseIndex(old_phase)
    IN  IF current_index < Len(phase_order)
        THEN phase_order[current_index + 1]
        ELSE old_phase

\* PhaseRecord with the clock reading in place of the time in the phase
PhaseRecord_ClockAsDuration(old_phase, time_in_phase, t) ==
    [phase |-> old_phase, duration |-> t, ended_at |-> t]

\* The record transition_to_next_phase appends to phase_history.
PhaseRecord(old_phase, time_in_phase, t) ==
    [phase |-> old_phase, duration |-> time_in_phase, ended_at |-> t]

\* _extract_content_themes: the loop over keywords from index i on
RECURSIVE ExtractFrom(_, _, _)
ExtractFrom(themes, response_lower, i) ==
    IF i > Len(keywords)
    THEN themes
    ELSE IF Contains(response_lower, keywords[i]) /\ ~InList(keywords[i], themes)
         THEN ExtractFrom(Append(themes, keywords[i]), response_lower, i + 1)
         ELSE ExtractFrom(themes, response_lower, i + 1)

\* _extract_content_themes appending every keyword it finds, recorded or not
ExtractContentThemes_Duplicates(themes, response) ==
    themes \o ExtractFrom(<<>>, Lower(response), 1)

\* _extract_content_themes(response)
ExtractContentThemes(themes, response) ==
    ExtractFrom(themes, Lower(response), 1)

\* _extract_development_items: the goal type detected in the response
GoalType(response) ==
    LET response_lower == Lower(response)
    IN  IF ContainsAny(response_lower, START_WORDS) THEN "start"
        ELSE IF ContainsAny(response_lower, STOP_WORDS) THEN "stop"
        ELSE IF ContainsAny(response_lower, CONTINUE_WORDS) THEN "continue"
        ELSE "none"

\* _extract_development_items without the test of the length
ExtractDevelopmentItems_AnyLength(plan, response, t) ==
    LET initialised == IF plan = NoPlan
                       THEN [exists |-> TRUE, created_at |-> t, goals |-> <<>>]
                       ELSE plan
        goal_type == GoalType(response)
    IN  IF goal_type # "none"
        THEN [initialised EXCEPT !.goals =
                 Append(@, [type |-> goal_type, description |-> response,
                            timestamp |-> t])]
        ELSE initialised

\* _extract_development_items(response) at clock reading t
ExtractDevelopmentItems(plan, response, t) ==
    LET initialised == IF plan = NoPlan
                       THEN [exists |-> TRUE, created_at |-> t, goals |-> <<>>]
                       ELSE plan
        goal_type == GoalType(response)
    IN  IF goal_type # "none" /\ Len(response) > GOAL_MIN_LENGTH
        THEN [initialised EXCEPT !.goals =
                 Append(@, [type |-> goal_type, description |-> response,
                            timestamp |-> t])]
        ELSE initialised

-----------------------------------------------------------------------------
(* Construction at clock reading 0: R2C2Engine.__init__,                   *)
(* EmotionDetector.__init__ and EmotionProcessor.__init__                  *)

Init ==
    /\ now = 0
    /\ current_phase = RELATIONSHIP
    /\ phase_start_time = 0
    /\ user_reactions = <<>>
    /\ content_themes = <<>>
    /\ development_plan = NoPlan
    /\ emotional_states = <<>>
    /\ phase_history = <<>>
    /\ emotion_history = <<>>
    /\ last_emotion = "none"
    /\ last_emotion_time = NoTime
    /\ utterance = NoUtterance
    /\ session_summary = NoSummary
    /\ last_phase = current_phase
    /\ phase_prompt_injected = FALSE
    /\ output = <<>>
    /\ NoProcess
    /\ op = "init"
    /\ ret = "none"

-----------------------------------------------------------------------------
(* Operations *)

\* Time passes between two calls.
Tick ==
    /\ \E t \in Instants : t > now /\ now' = t
    /\ op' = "tick"
    /\ ret' = "none"
    /\ UNCHANGED <<io, state, audio>>

\* should_transition(emotion_state), deciding before it records the emotion.
should_transition_DecideFirst(emotion_state) ==
    LET time_in_phase == TimeInPhase(phase_start_time, now)
        states == IF emotion_state # NoEmotion
                  THEN Append(emotional_states, emotion_state)
                  ELSE emotional_states
    IN  /\ emotional_states' = states
        /\ ret' = ShouldTransitionDecision(current_phase, time_in_phase,
                                           emotional_states, content_themes,
                                           now)
        /\ op' = "should_transition"
        /\ UNCHANGED <<io, now, current_phase, phase_start_time, user_reactions,
                       content_themes, development_plan, phase_history,
                       audio>>

\* should_transition(emotion_state)
should_transition(emotion_state) ==
    LET time_in_phase == TimeInPhase(phase_start_time, now)
        states == IF emotion_state # NoEmotion
                  THEN Append(emotional_states, emotion_state)
                  ELSE emotional_states
    IN  /\ emotional_states' = states
        /\ ret' = ShouldTransitionDecision(current_phase, time_in_phase,
                                           states, content_themes, now)
        /\ op' = "should_transition"
        /\ UNCHANGED <<io, now, current_phase, phase_start_time, user_reactions,
                       content_themes, development_plan, phase_history,
                       audio>>

\* transition_to_next_phase()
transition_to_next_phase ==
    LET old_phase == current_phase
        time_in_phase == TimeInPhase(phase_start_time, now)
        new_phase == NextPhase(old_phase)
    IN  /\ phase_history' = Append(phase_history,
                                   PhaseRecord(old_phase, time_in_phase, now))
        /\ current_phase' = new_phase
        /\ phase_start_time' = now
        /\ ret' = new_phase
        /\ op' = "transition_to_next_phase"
        /\ UNCHANGED <<io, now, user_reactions, content_themes,
                       development_plan, emotional_states, audio>>

\* record_user_response that logs the text in every phase
record_user_response_LogsAlways(response, emotion) ==
    /\ emotional_states' = IF emotion # NoEmotion
                           THEN Append(emotional_states, emotion)
                           ELSE emotional_states
    /\ user_reactions' = Append(user_reactions, response)
    /\ content_themes' = IF current_phase = CONTENT
                         THEN ExtractContentThemes(content_themes, response)
                         ELSE content_themes
    /\ development_plan' = IF current_phase = COACHING
                           THEN ExtractDevelopmentItems(development_plan,
                                                        response, now)
                           ELSE development_plan
    /\ utterance' = <<response, emotion>>
    /\ op' = "record_user_response"
    /\ ret' = "none"
    /\ UNCHANGED <<session_summary, processor, process, now, current_phase,
                   phase_start_time, phase_history, audio>>

\* record_user_response(response, emotion)
record_user_response(response, emotion) ==
    /\ emotional_states' = IF emotion # NoEmotion
                           THEN Append(emotional_states, emotion)
                           ELSE emotional_states
    /\ user_reactions' = IF current_phase = REACTION
                         THEN Append(user_reactions, response)
                         ELSE user_reactions
    /\ content_themes' = IF current_phase = CONTENT
                         THEN ExtractContentThemes(content_themes, response)
                         ELSE content_themes
    /\ development_plan' = IF current_phase = COACHING
                           THEN ExtractDevelopmentItems(development_plan,
                                                        response, now)
                           ELSE development_plan
    /\ utterance' = <<response, emotion>>
    /\ op' = "record_user_response"
    /\ ret' = "none"
    /\ UNCHANGED <<session_summary, processor, process, now, current_phase,
                   phase_start_time, phase_history, audio>>

-----------------------------------------------------------------------------
(* A session: the engine is constructed and then called by its users *)

\* The callers stay within the bounds of the model.
Recorded ==
    Len(emotional_states) + Len(user_reactions) + Len(development_plan.goals)

RoomForEmotion == Recorded < MaxRecords
RoomForResponse == current_phase \in {REACTION, COACHING} => Recorded < MaxRecords
RoomForBoth ==
    IF current_phase \in {REACTION, COACHING}
    THEN Recorded + 1 < MaxRecords
    ELSE Recorded < MaxRecords

Poll == should_transition(NoEmotion)

PollWithEmotion ==
    /\ RoomForEmotion
    /\ \E e \in SessionEmotions : should_transition(EmotionState(e, now))

Transition ==
    /\ Len(phase_history) < MaxHistory
    /\ transition_to_next_phase

Respond ==
    /\ RoomForResponse
    /\ \E u \in SessionUtterances : record_user_response(u, NoEmotion)

RespondWithEmotion ==
    /\ RoomForBoth
    /\ \E u \in SessionUtterances, e \in SessionEmotions :
          record_user_response(u, EmotionState(e, now))

Next ==
    \/ Tick
    \/ Poll
    \/ PollWithEmotion
    \/ Transition
    \/ Respond
    \/ RespondWithEmotion

Spec == Init /\ [][Next]_vars

-----------------------------------------------------------------------------
(* The decision of should_transition, from drawn engine states.            *)
(* Every drawn state is one a session reaches: the phase was entered by    *)
(* transition_to_next_phase calls, the emotions by should_transition, the  *)
(* themes and the plan by record_user_response.                            *)

\* Seconds spent in the current phase when the engine is polled.
ElapsedSamples(phase) ==
    CASE phase = RELATIONSHIP -> {0, 89, 90, 119, 120, 130}
      [] phase = REACTION -> {0, 179, 180, 181, 599, 600, 601}
      [] phase = CONTENT -> {0, 239, 240, 719, 720}
      [] phase = COACHING -> {0, 720}

\* Clock reading at which the phase was entered.
StartSample(phase) ==
    CASE phase = RELATIONSHIP -> 0
      [] phase = REACTION -> 130
      [] phase = CONTENT -> 330
      [] phase = COACHING -> 600

\* phase_history once the phase is entered at StartSample.
HistorySample(phase) ==
    LET full == <<PhaseRecord(RELATIONSHIP, 130, 130),
                  PhaseRecord(REACTION, 200, 330),
                  PhaseRecord(CONTENT, 270, 600)>>
    IN  SubSeq(full, 1, PhaseIndex(phase) - 1)

\* content_themes recorded during the Content phase.
ThemeSamples(phase) ==
    CASE phase \in {RELATIONSHIP, REACTION} -> {<<>>}
      [] phase = CONTENT ->
            {<<>>, <<KW_feedback>>, <<KW_feedback, KW_planning>>,
             <<KW_listening, KW_feedback, KW_planning>>}
      [] phase = COACHING ->
            {<<>>, <<KW_listening, KW_feedback, KW_planning>>}

\* development_plan recorded during the Coaching phase.
PlanSamples(phase) ==
    IF phase = COACHING
    THEN {NoPlan,
          ExtractDevelopmentItems(NoPlan, TEXT_GOAL, StartSample(COACHING))}
    ELSE {NoPlan}

\* Age in seconds of a recorded emotion when the engine is polled.
AgeSamples == {0, 60, 61}

InitDecide ==
    /\ current_phase \in R2C2Phase
    /\ phase_start_time = StartSample(current_phase)
    /\ \E elapsed \in ElapsedSamples(current_phase) :
          now = phase_start_time + elapsed
    /\ phase_history = HistorySample(current_phase)
    /\ user_reactions = <<>>
    /\ content_themes \in ThemeSamples(current_phase)
    /\ development_plan \in PlanSamples(current_phase)
    /\ \E n \in 0..MaxSample :
          \E emotion \in [1..n -> Emotions], age \in [1..n -> AgeSamples] :
             /\ \A i \in 1..n : age[i] <= now
             /\ \A i \in 1..(n - 1) : age[i] >= age[i + 1]
             /\ emotional_states =
                   [i \in 1..n |-> EmotionState(emotion[i], now - age[i])]
    /\ emotion_history = <<>>
    /\ last_emotion = "none"
    /\ last_emotion_time = NoTime
    /\ utterance = NoUtterance
    /\ session_summary = NoSummary
    /\ last_phase = current_phase
    /\ phase_prompt_injected = FALSE
    /\ output = <<>>
    /\ NoProcess
    /\ op = "init"
    /\ ret = "none"

PollSampled ==
    /\ Len(emotional_states) < MaxSample
    /\ \E e \in Emotions : should_transition(EmotionState(e, now))

NextDecide ==
    \/ Poll
    \/ PollSampled

SpecDecide == InitDecide /\ [][NextDecide]_vars

-----------------------------------------------------------------------------
(* The utterance bookkeeping: record_user_response called in every phase   *)
(* with texts on both sides of each test it makes.                         *)

\* 24 characters, two themes and no action word
TEXT_LONG ==
    <<"P", "l", "a", "n", "n", "i", "n", "g", " ", "a", "n", "d", " ",
      "m", "y", " ", "f", "e", "e", "d", "b", "a", "c", "k">>
\* exactly 20 characters with a word of the continue family
TEXT_TWENTY ==
    <<"k", "e", "e", "p", " ", "l", "i", "s", "t", "e", "n", "i", "n",
      "g", " ", "t", "o", " ", "m", "e">>
\* 21 characters with a word of the stop family
TEXT_AVOID ==
    <<"A", "V", "O", "I", "D", " ", "i", "n", "t", "e", "r", "r", "u",
      "p", "t", "i", "n", "g", " ", "m", "e">>
\* 23 characters with a word of the continue family
TEXT_MAINTAIN ==
    <<"I", " ", "w", "i", "l", "l", " ", "m", "a", "i", "n", "t", "a",
      "i", "n", " ", "m", "y", " ", "p", "a", "c", "e">>

RecordUtterances ==
    {TEXT_EMPTY, TEXT_BLANK, TEXT_GOAL, TEXT_LONG, TEXT_TWENTY, TEXT_AVOID,
     TEXT_MAINTAIN}

RecordEmotions == {"neutral"}

\* transition_to_next_phase() may be called at any time.
RecordTransition ==
    /\ Len(phase_history) < MaxHistory
    /\ transition_to_next_phase

RecordResponse ==
    /\ Len(user_reactions) + Len(development_plan.goals) < MaxTexts
    /\ \E response \in RecordUtterances :
          record_user_response(response, NoEmotion)

RecordResponseWithEmotion ==
    /\ Len(user_reactions) + Len(development_plan.goals) < MaxTexts
    /\ Len(emotional_states) < MaxStored
    /\ \E e \in RecordEmotions :
          record_user_response(TEXT_GOAL, EmotionState(e, now))

NextRecord ==
    \/ RecordTransition
    \/ RecordResponse
    \/ RecordResponseWithEmotion

SpecRecord == Init /\ [][NextRecord]_vars

-----------------------------------------------------------------------------
(* The read operations of the engine *)

\* Clock reading kept in _session_start_time by the constructor.
SessionStart == 0

Occurrences(emotions, e) ==
    Cardinality({i \in DOMAIN emotions : emotions[i] = e})

\* max(emotion_counts, key=emotion_counts.get): the counts are entered in
\* order of first occurrence, and max keeps the first of the largest.
MostFrequent(emotions) ==
    LET first == CHOOSE i \in DOMAIN emotions :
            /\ \A j \in DOMAIN emotions :
                  Occurrences(emotions, emotions[j])
                      <= Occurrences(emotions, emotions[i])
            /\ \A j \in 1..(i - 1) :
                  Occurrences(emotions, emotions[j])
                      < Occurrences(emotions, emotions[i])
    IN  emotions[first]

EmotionsOf(states) == [i \in DOMAIN states |-> states[i].emotion]

\* _get_emotional_adaptation_guidance: the headline of the block it
\* returns, "" when the last 60 s hold no emotion.
EmotionalAdaptationGuidance(states, t) ==
    LET recent_emotions == RecentEmotions(states, READINESS_WINDOW, t)
        predominant_emotion == MostFrequent(EmotionsOf(recent_emotions))
    IN  IF recent_emotions = <<>> THEN ""
        ELSE CASE predominant_emotion = "defensive" -> "DEFENSIVE"
               [] predominant_emotion = "frustrated" -> "FRUSTRATED"
               [] predominant_emotion = "sad" -> "SAD"
               [] predominant_emotion = "anxious" -> "ANXIOUS"
               [] predominant_emotion = "positive" -> "POSITIVE/OPEN"
               [] OTHER -> "NEUTRAL/CALM"

\* get_phase_prompt: the phase whose template opens the prompt, and the
\* guidance block appended to it ("" when nothing is appended).
PhasePrompt(phase, include_emotional_guidance, states, t) ==
    [base_prompt |-> phase,
     emotional_guidance |-> IF include_emotional_guidance
                            THEN EmotionalAdaptationGuidance(states, t)
                            ELSE ""]

\* get_pacing_recommendation taking sad for a state that needs no slowing.
PacingRecommendation_SadIsNormal(states, t) ==
    LET recent_emotions == RecentEmotions(states, READINESS_WINDOW, t)
        predominant_emotion == MostFrequent(EmotionsOf(recent_emotions))
        normal == [pace |-> "normal", pause_duration |-> "standard",
                   validation_level |-> "normal", complexity |-> "normal",
                   recommendation |-> "absent"]
    IN  IF recent_emotions = <<>> THEN normal
        ELSE IF predominant_emotion \in DEFENSIVE_EMOTIONS
        THEN [pace |-> "slow", pause_duration |-> "extended",
              validation_level |-> "high", complexity |-> "low",
              recommendation |-> predominant_emotion]
        ELSE [normal EXCEPT !.recommendation = predominant_emotion]

\* get_pacing_recommendation; recommendation names the emotion the sentence
\* is about, "absent" when the dictionary has no such key.
PacingRecommendation(states, t) ==
    LET recent_emotions == RecentEmotions(states, READINESS_WINDOW, t)
        predominant_emotion == MostFrequent(EmotionsOf(recent_emotions))
        normal == [pace |-> "normal", pause_duration |-> "standard",
                   validation_level |-> "normal", complexity |-> "normal",
                   recommendation |-> "absent"]
    IN  IF recent_emotions = <<>> THEN normal
        ELSE IF predominant_emotion
                  \in {"defensive", "frustrated", "sad", "anxious"}
        THEN [pace |-> "slow", pause_duration |-> "extended",
              validation_level |-> "high", complexity |-> "low",
              recommendation |-> predominant_emotion]
        ELSE IF predominant_emotion = "positive"
        THEN [normal EXCEPT !.recommendation = "positive"]
        ELSE [normal EXCEPT !.recommendation = "neutral"]

\* get_phase_guidance: goals, key_questions and tips are the fixed lists of
\* the phase named by playbook.
PhaseGuidance(phase, time_in_phase) ==
    [phase |-> phase, time_in_phase |-> time_in_phase, playbook |-> phase]

\* phase_durations of the summary: a dictionary keyed by phase name, the
\* later record of a phase replacing the earlier, the current phase last.
PhaseDurations(history, phase, time_in_phase) ==
    LET recorded == {history[i].phase : i \in DOMAIN history}
        last(p) == CHOOSE i \in DOMAIN history :
                      /\ history[i].phase = p
                      /\ \A j \in DOMAIN history :
                            history[j].phase = p => j <= i
    IN  [p \in recorded \cup {phase} |->
            IF p = phase THEN time_in_phase ELSE history[last(p)].duration]

\* _analyze_emotional_journey
EmotionalJourney(states) ==
    LET emotions == EmotionsOf(states)
        changes == {i \in 2..Len(emotions) : emotions[i] # emotions[i - 1]}
    IN  IF states = <<>>
        THEN [start_emotion |-> "unknown", end_emotion |-> "unknown",
              predominant_emotion |-> "unknown", emotion_changes |-> 0,
              emotion_distribution |-> "absent"]
        ELSE [start_emotion |-> emotions[1],
              end_emotion |-> emotions[Len(emotions)],
              predominant_emotion |-> MostFrequent(emotions),
              emotion_changes |-> Cardinality(changes),
              emotion_distribution |->
                  [e \in {emotions[i] : i \in DOMAIN emotions} |->
                      Occurrences(emotions, e)]]

\* _format_development_plan
FormatDevelopmentPlan(plan) ==
    IF ~plan.exists
    THEN [goals |-> <<>>, goal_count |-> "absent", created |-> FALSE,
          created_at |-> "absent"]
    ELSE [goals |-> plan.goals, goal_count |-> Len(plan.goals),
          created |-> TRUE, created_at |-> plan.created_at]

INSIGHT_MIN_THEMES == 3
INSIGHT_MIN_PHASES == 3

Insight(text, count) == [insight |-> text, count |-> count]

\* _generate_key_insights
GenerateKeyInsights(states, themes, plan, history) ==
    LET journey ==
            IF /\ states # <<>>
               /\ states[1].emotion \in DEFENSIVE_EMOTIONS
               /\ states[Len(states)].emotion \in READY_EMOTIONS
            THEN <<Insight("processed initial defensiveness", 0)>>
            ELSE <<>>
        discussed ==
            IF Len(themes) >= INSIGHT_MIN_THEMES
            THEN <<Insight("key development themes", Len(themes))>>
            ELSE <<>>
        planned ==
            IF plan.exists /\ Len(plan.goals) > 0
            THEN <<Insight("actionable goals", Len(plan.goals))>>
            ELSE <<>>
        completed ==
            IF Len(history) >= INSIGHT_MIN_PHASES
            THEN <<Insight("completed full journey", 0)>>
            ELSE <<>>
        insights == journey \o discussed \o planned \o completed
    IN  IF insights # <<>> THEN insights
        ELSE <<Insight("Session in progress", 0)>>

\* get_phase_prompt(include_emotional_guidance)
get_phase_prompt(include_emotional_guidance) ==
    /\ ret' = PhasePrompt(current_phase, include_emotional_guidance,
                          emotional_states, now)
    /\ op' = "get_phase_prompt"
    /\ UNCHANGED <<io, now, state, audio>>

\* get_pacing_recommendation()
get_pacing_recommendation ==
    /\ ret' = PacingRecommendation(emotional_states, now)
    /\ op' = "get_pacing_recommendation"
    /\ UNCHANGED <<io, now, state, audio>>

\* get_phase_guidance() restarting the phase clock it reads.
get_phase_guidance_RestartsClock ==
    /\ ret' = PhaseGuidance(current_phase,
                            TimeInPhase(phase_start_time, now))
    /\ op' = "get_phase_guidance"
    /\ phase_start_time' = now
    /\ UNCHANGED <<io, now, current_phase, user_reactions, content_themes,
                   development_plan, emotional_states, phase_history, audio>>

\* get_phase_guidance()
get_phase_guidance ==
    /\ ret' = PhaseGuidance(current_phase,
                            TimeInPhase(phase_start_time, now))
    /\ op' = "get_phase_guidance"
    /\ UNCHANGED <<io, now, state, audio>>

\* get_session_summary()
get_session_summary ==
    /\ ret' = [duration_seconds |-> now - SessionStart,
               phase_durations |->
                   PhaseDurations(phase_history, current_phase,
                                  TimeInPhase(phase_start_time, now)),
               phases_completed |->
                   [i \in DOMAIN phase_history |-> phase_history[i].phase],
               current_phase |-> current_phase,
               emotional_journey |-> EmotionalJourney(emotional_states),
               reactions_explored |-> Len(user_reactions),
               content_themes_discussed |-> content_themes,
               development_plan |-> FormatDevelopmentPlan(development_plan),
               key_insights |->
                   GenerateKeyInsights(emotional_states, content_themes,
                                       development_plan, phase_history)]
    /\ op' = "get_session_summary"
    /\ UNCHANGED <<io, now, state, audio>>

\* A session whose users also read the engine; the emotions are the ones
\* supplied to should_transition, and the user says one utterance, which
\* is a reaction, names a theme and states a goal.
ReadUtterances == {TEXT_GOAL}

RespondRead ==
    /\ RoomForResponse
    /\ \E u \in ReadUtterances : record_user_response(u, NoEmotion)

ReadPrompt == \E include \in BOOLEAN : get_phase_prompt(include)

NextRead ==
    \/ Tick
    \/ Poll
    \/ PollWithEmotion
    \/ Transition
    \/ RespondRead
    \/ ReadPrompt
    \/ get_pacing_recommendation
    \/ get_phase_guidance
    \/ get_session_summary

SpecRead == Init /\ [][NextRead]_vars

-----------------------------------------------------------------------------
(* R2C2Processor: the engine driven by the user's transcriptions *)

\* len(user_text.strip()) == 0
IsBlank(user_text) == \A i \in DOMAIN user_text : user_text[i] = " "

\* What the handler did: it ignored a blank text, or it polled
\* should_transition() and stayed in the phase or moved on.
Handled(polled, answer) ==
    IF ~polled THEN "ignored"
    ELSE IF answer THEN "advance"
    ELSE "stay"

\* _emit_phase_transition_event naming the phases the wrong way round
PhaseTransitionEvent_Reversed(from_phase, to_phase, start, t) ==
    [type |-> "r2c2-phase-transition",
     from_phase |-> to_phase,
     to_phase |-> from_phase,
     timestamp |-> t,
     time_in_previous_phase |-> TimeInPhase(start, t)]

\* _emit_phase_transition_event: the server message sent through RTVI at
\* clock reading t; time_in_previous_phase is get_time_in_phase() read
\* when the event is built, from the phase clock start.
PhaseTransitionEvent(from_phase, to_phase, start, t) ==
    [type |-> "r2c2-phase-transition",
     from_phase |-> from_phase,
     to_phase |-> to_phase,
     timestamp |-> t,
     time_in_previous_phase |-> TimeInPhase(start, t)]

\* _handle_user_transcription moving on without asking should_transition().
handle_user_transcription_Unasked(user_text) ==
    LET time_in_phase == TimeInPhase(phase_start_time, now)
    IN  /\ ~IsBlank(user_text)
        /\ user_reactions' = IF current_phase = REACTION
                             THEN Append(user_reactions, user_text)
                             ELSE user_reactions
        /\ content_themes' =
              IF current_phase = CONTENT
              THEN ExtractContentThemes(content_themes, user_text)
              ELSE content_themes
        /\ development_plan' =
              IF current_phase = COACHING
              THEN ExtractDevelopmentItems(development_plan, user_text, now)
              ELSE development_plan
        /\ phase_history' =
              Append(phase_history,
                     PhaseRecord(current_phase, time_in_phase, now))
        /\ current_phase' = NextPhase(current_phase)
        /\ phase_start_time' = now
        /\ IF NextPhase(current_phase) # current_phase
           THEN /\ last_phase' = NextPhase(current_phase)
                /\ phase_prompt_injected' = FALSE
                /\ output' =
                      Append(output,
                             PhaseTransitionEvent(current_phase,
                                                  NextPhase(current_phase),
                                                  now, now))
           ELSE UNCHANGED processor
        /\ ret' = Handled(TRUE, TRUE)
        /\ utterance' = <<user_text, NoEmotion>>
        /\ op' = "handle_user_transcription"
        /\ UNCHANGED <<session_summary, process, now, emotional_states, audio>>

\* _handle_user_transcription(frame) with frame.text = user_text: the
\* response is recorded, should_transition() is asked, and on a true answer
\* transition_to_next_phase() is called; when the phase changed the flags
\* are reset and the event is sent, built after the transition has
\* restarted the phase clock. The calls read the clock within the same
\* second.
handle_user_transcription(user_text) ==
    LET time_in_phase == TimeInPhase(phase_start_time, now)
        themes == IF current_phase = CONTENT
                  THEN ExtractContentThemes(content_themes, user_text)
                  ELSE content_themes
        answer == ShouldTransitionDecision(current_phase, time_in_phase,
                                           emotional_states, themes, now)
    IN  IF IsBlank(user_text)
        THEN /\ ret' = Handled(FALSE, FALSE)
             /\ op' = "handle_user_transcription"
             /\ UNCHANGED <<io, now, state, audio>>
        ELSE /\ user_reactions' = IF current_phase = REACTION
                                  THEN Append(user_reactions, user_text)
                                  ELSE user_reactions
             /\ content_themes' = themes
             /\ development_plan' =
                   IF current_phase = COACHING
                   THEN ExtractDevelopmentItems(development_plan, user_text,
                                                now)
                   ELSE development_plan
             /\ phase_history' =
                   IF answer
                   THEN Append(phase_history,
                               PhaseRecord(current_phase, time_in_phase, now))
                   ELSE phase_history
             /\ current_phase' = IF answer THEN NextPhase(current_phase)
                                 ELSE current_phase
             /\ phase_start_time' = IF answer THEN now ELSE phase_start_time
             /\ IF answer /\ NextPhase(current_phase) # current_phase
                THEN /\ last_phase' = NextPhase(current_phase)
                     /\ phase_prompt_injected' = FALSE
                     /\ output' =
                           Append(output,
                                  PhaseTransitionEvent(
                                      current_phase, NextPhase(current_phase),
                                      now, now))
                ELSE UNCHANGED processor
             /\ ret' = Handled(TRUE, answer)
             /\ utterance' = <<user_text, NoEmotion>>
             /\ op' = "handle_user_transcription"
             /\ UNCHANGED <<session_summary, process, now, emotional_states, audio>>

\* self.r2c2_engine.state.emotional_states.append(emotion_state), the write
\* by which an emotion reaches the driven engine.
store_emotion(emotion_state) ==
    /\ emotional_states' = Append(emotional_states, emotion_state)
    /\ op' = "store_emotion"
    /\ ret' = "none"
    /\ UNCHANGED <<io, now, current_phase, phase_start_time, user_reactions,
                   content_themes, development_plan, phase_history, audio>>

\* Clock readings at which a driven session is observed: the floors of the
\* phases entered at these readings, and a reading past every ceiling.
DriverInstants == {0, 90, 270, 510, 1300}

\* What the user says, and the emotions that reach the engine.
DriverUtterances == {TEXT_BLANK, TEXT_THEMES, TEXT_SHORT}
DriverEmotions == {"neutral", "defensive"}

DriverTick ==
    /\ \E t \in DriverInstants : t > now /\ now' = t
    /\ op' = "tick"
    /\ ret' = "none"
    /\ UNCHANGED <<io, state, audio>>

HandleTranscription ==
    /\ current_phase \in {REACTION, COACHING} =>
          Len(user_reactions) + Len(development_plan.goals) < MaxRecords
    /\ \E u \in DriverUtterances : handle_user_transcription(u)

StoreEmotion ==
    /\ Len(emotional_states) < MaxStored
    /\ \E e \in DriverEmotions : store_emotion(EmotionState(e, now))

NextDriver ==
    \/ DriverTick
    \/ HandleTranscription
    \/ StoreEmotion

SpecDriver == Init /\ [][NextDriver]_vars

\* A driven session in which the clock keeps advancing and the driver keeps
\* polling: every clock reading is followed by a spoken transcription, and
\* the clock moves to the next reading once the transcription is handled.
\* The readings are the floors and the ceilings of the phases.
LiveInstants == {0, 120, 300, 720, 1440}

LiveUtterances == {TEXT_THEMES, TEXT_SHORT}

NextInstant ==
    CHOOSE t \in LiveInstants :
        /\ t > now
        /\ \A u \in LiveInstants : u > now => t <= u

LiveTick ==
    /\ op = "handle_user_transcription"
    /\ \E t \in LiveInstants : t > now
    /\ now' = NextInstant
    /\ op' = "tick"
    /\ ret' = "none"
    /\ UNCHANGED <<io, state, audio>>

LiveHandle ==
    /\ op # "handle_user_transcription"
    /\ \E u \in LiveUtterances : handle_user_transcription(u)

NextLive ==
    \/ LiveTick
    \/ LiveHandle
    \/ StoreEmotion

SpecLive ==
    /\ Init
    /\ [][NextLive]_vars
    /\ WF_vars(LiveTick)
    /\ WF_vars(LiveHandle)

-----------------------------------------------------------------------------
(* R2C2Processor: the phase prompt injected into the LLM frames. A message *)
(* is a role and a content; the content is the sequence of the text blocks *)
(* it is made of, and the phase prompt is the block of the phase template  *)
(* followed by the block of the emotional guidance, when there is one.     *)

EMOTION_SHIFT_WINDOW == 30
EMOTION_SHIFT_AGE == 20
SIGNIFICANT_EMOTIONS == {"defensive", "frustrated", "sad", "anxious"}

\* _should_update_for_emotion
ShouldUpdateForEmotion(states, t) ==
    LET recent_emotions == RecentEmotions(states, EMOTION_SHIFT_WINDOW, t)
        last == recent_emotions[Len(recent_emotions)]
        older_emotions ==
            SelectSeq(recent_emotions,
                      LAMBDA e : last.timestamp - e.timestamp
                                     >= EMOTION_SHIFT_AGE)
        current_emotion == last.emotion
        older_emotion == older_emotions[1].emotion
    IN  IF Len(recent_emotions) < 2 THEN FALSE
        ELSE IF older_emotions = <<>> THEN FALSE
        ELSE \/ (current_emotion \in SIGNIFICANT_EMOTIONS)
                   # (older_emotion \in SIGNIFICANT_EMOTIONS)
             \/ /\ current_emotion \in SIGNIFICANT_EMOTIONS
                /\ older_emotion \in SIGNIFICANT_EMOTIONS
                /\ current_emotion # older_emotion

\* The text of get_phase_prompt: base_prompt += "\n\n" + guidance
PromptText(prompt) ==
    IF prompt.emotional_guidance # ""
    THEN <<prompt.base_prompt, prompt.emotional_guidance>>
    ELSE <<prompt.base_prompt>>

Message(role, content) == [role |-> role, content |-> content]

\* frame.messages after the phase prompt was put into them
Injected(messages, phase_prompt) ==
    IF messages # <<>>
    THEN IF messages[1].role = "system"
         THEN [messages EXCEPT ![1].content = @ \o phase_prompt]
         ELSE <<Message("system", phase_prompt)>> \o messages
    ELSE <<Message("system", phase_prompt)>>

\* An LLMMessagesFrame the processor is done with: the messages it arrived
\* with and the messages it holds now.
ProcessedFrame(given, messages) ==
    [type |-> "LLMMessagesFrame", given |-> given, messages |-> messages]

\* _inject_phase_context forgetting that the handler reset the flag
inject_phase_context_OnlyOnPhaseMismatch(messages) ==
    LET should_update_prompt ==
            \/ current_phase # last_phase
            \/ ShouldUpdateForEmotion(emotional_states, now)
        phase_prompt ==
            PromptText(PhasePrompt(current_phase, TRUE, emotional_states,
                                   now))
    IN  /\ output' =
              Append(output,
                     ProcessedFrame(messages,
                                    IF should_update_prompt
                                    THEN Injected(messages, phase_prompt)
                                    ELSE messages))
        /\ phase_prompt_injected' =
              (should_update_prompt \/ phase_prompt_injected)
        /\ last_phase' = IF should_update_prompt THEN current_phase
                         ELSE last_phase
        /\ op' = "inject_phase_context"
        /\ ret' = "none"
        /\ UNCHANGED <<utterance, session_summary, process, now, state, audio>>

\* _inject_phase_context(frame) with frame.messages = messages
inject_phase_context(messages) ==
    LET should_update_prompt ==
            \/ current_phase # last_phase
            \/ ~phase_prompt_injected
            \/ ShouldUpdateForEmotion(emotional_states, now)
        phase_prompt ==
            PromptText(PhasePrompt(current_phase, TRUE, emotional_states,
                                   now))
    IN  /\ output' =
              Append(output,
                     ProcessedFrame(messages,
                                    IF should_update_prompt
                                    THEN Injected(messages, phase_prompt)
                                    ELSE messages))
        /\ phase_prompt_injected' =
              (should_update_prompt \/ phase_prompt_injected)
        /\ last_phase' = IF should_update_prompt THEN current_phase
                         ELSE last_phase
        /\ op' = "inject_phase_context"
        /\ ret' = "none"
        /\ UNCHANGED <<utterance, session_summary, process, now, state, audio>>

\* Clock readings of a session whose frames are watched: two readings 20 s
\* apart, and the ceiling of the phase entered at 120 s.
PipelineInstants == {0, 100, 120, 720}

PipelineUtterances == {TEXT_BLANK, TEXT_SHORT}

\* The messages of the frames that arrive: none, the system instruction
\* first, or a user message first.
FrameMessages ==
    {<<>>,
     <<Message("system", <<"SYSTEM_INSTRUCTION">>)>>,
     <<Message("user", <<"hello">>)>>}

FramesProcessed ==
    Cardinality({i \in DOMAIN output : output[i].type = "LLMMessagesFrame"})

PipelineTick ==
    /\ \E t \in PipelineInstants : t > now /\ now' = t
    /\ op' = "tick"
    /\ ret' = "none"
    /\ UNCHANGED <<io, state, audio>>

PipelineTranscription ==
    /\ current_phase \in {REACTION, COACHING} =>
          Len(user_reactions) + Len(development_plan.goals) < MaxTexts
    /\ \E u \in PipelineUtterances : handle_user_transcription(u)

ShiftInstants == {100, 120}

\* One emotion is heard at a clock reading, while the shift is watched.
PipelineEmotion ==
    /\ Len(emotional_states) < MaxStored
    /\ now \in ShiftInstants
    /\ \A i \in DOMAIN emotional_states : emotional_states[i].timestamp # now
    /\ \E e \in DriverEmotions : store_emotion(EmotionState(e, now))

ProcessFrame ==
    /\ FramesProcessed < MaxFrames
    /\ \E messages \in FrameMessages : inject_phase_context(messages)

NextPipeline ==
    \/ PipelineTick
    \/ PipelineTranscription
    \/ PipelineEmotion
    \/ ProcessFrame

SpecPipeline == Init /\ [][NextPipeline]_vars

-----------------------------------------------------------------------------
(* EmotionDetector: the classifier.                                        *)
(* pitch_variance is in Hz, energy and tempo are in hundredths, scores and *)
(* confidences are in tenths: the sums of 0.3, 0.4 and 0.5 that the code   *)
(* forms are exact in floating point.                                      *)

\* The members of the enumeration EmotionType, in the order of the keys of
\* emotion_scores. They are not the strings the engine compares with.
EmotionType ==
    <<"NEUTRAL", "DEFENSIVE", "FRUSTRATED", "SAD", "ANXIOUS", "POSITIVE">>

EmotionTypes == {EmotionType[i] : i \in DOMAIN EmotionType}

PITCH_VARIANCE_HIGH == 50
PITCH_VARIANCE_LOW == 15
ENERGY_HIGH == 70
ENERGY_LOW == 30
TEMPO_FAST == 130
TEMPO_SLOW == 70
MIN_CONFIDENCE == 3
FULL_CONFIDENCE == 10

\* PITCH_VARIANCE_HIGH * 0.7, * 0.8 and * 0.6
PITCH_VARIANCE_FRUSTRATED == 35
PITCH_VARIANCE_POSITIVE == 40
PITCH_VARIANCE_NEUTRAL == 30
\* TEMPO_FAST * 0.9 is the float 1.1700000000000002: a tempo of 1.17 is
\* below it.
TEMPO_STEADY_MAX == 117
AboveSteadyTempo(tempo) == tempo > TEMPO_STEADY_MAX
BelowFastTempo(tempo) == tempo <= TEMPO_STEADY_MAX
\* TEMPO_SLOW * 1.1 and TEMPO_SLOW * 1.2
TEMPO_IRREGULAR_MIN == 77
TEMPO_STEADY_MIN == 84
\* ENERGY_HIGH * 0.8 is the float 0.5599999999999999: an energy of 0.56 is
\* above it.
ENERGY_RAISED == 56
AboveRaisedEnergy(energy) == energy >= ENERGY_RAISED
BelowRaisedEnergy(energy) == energy < ENERGY_RAISED
\* ENERGY_LOW * 1.2
ENERGY_BASELINE_MIN == 36

Score(condition, points) == IF condition THEN points ELSE 0

\* emotion_scores once the six rules have been applied
EmotionScores(features) ==
    LET pitch_variance == features.pitch_variance
        energy == features.energy
        tempo == features.tempo
    IN  [e \in EmotionTypes |->
          CASE e = "DEFENSIVE" ->
                  Score(pitch_variance > PITCH_VARIANCE_HIGH, 4)
                  + Score(tempo > TEMPO_FAST, 3)
                  + Score(energy > ENERGY_HIGH, 3)
            [] e = "FRUSTRATED" ->
                  Score(energy > ENERGY_HIGH, 4)
                  + Score(pitch_variance > PITCH_VARIANCE_FRUSTRATED, 3)
                  + Score(AboveSteadyTempo(tempo)
                             \/ tempo < TEMPO_IRREGULAR_MIN, 3)
            [] e = "SAD" ->
                  Score(energy < ENERGY_LOW, 4)
                  + Score(tempo < TEMPO_SLOW, 3)
                  + Score(pitch_variance < PITCH_VARIANCE_LOW, 3)
            [] e = "ANXIOUS" ->
                  Score(pitch_variance > PITCH_VARIANCE_HIGH, 4)
                  + Score(tempo > TEMPO_FAST, 3)
                  + Score(AboveRaisedEnergy(energy), 3)
            [] e = "POSITIVE" ->
                  Score(ENERGY_LOW < energy /\ energy < ENERGY_HIGH, 3)
                  + Score(TEMPO_STEADY_MIN < tempo /\ BelowFastTempo(tempo), 4)
                  + Score(PITCH_VARIANCE_LOW < pitch_variance
                             /\ pitch_variance < PITCH_VARIANCE_POSITIVE, 3)
            [] e = "NEUTRAL" ->
                  Score(/\ ENERGY_BASELINE_MIN < energy
                        /\ BelowRaisedEnergy(energy)
                        /\ TEMPO_IRREGULAR_MIN < tempo
                        /\ BelowFastTempo(tempo)
                        /\ pitch_variance < PITCH_VARIANCE_NEUTRAL, 5)]

\* max(emotion_scores, key=emotion_scores.get) returning the last of the
\* keys that have the largest score
MaxEmotion_LastOfTies(emotion_scores) ==
    LET last == CHOOSE i \in DOMAIN EmotionType :
            /\ \A j \in DOMAIN EmotionType :
                  emotion_scores[EmotionType[j]]
                      <= emotion_scores[EmotionType[i]]
            /\ \A j \in (i + 1)..Len(EmotionType) :
                  emotion_scores[EmotionType[j]]
                      < emotion_scores[EmotionType[i]]
    IN  EmotionType[last]

\* max(emotion_scores, key=emotion_scores.get): the first key, in the order
\* of the dictionary, that has the largest score
MaxEmotion(emotion_scores) ==
    LET first == CHOOSE i \in DOMAIN EmotionType :
            /\ \A j \in DOMAIN EmotionType :
                  emotion_scores[EmotionType[j]]
                      <= emotion_scores[EmotionType[i]]
            /\ \A j \in 1..(i - 1) :
                  emotion_scores[EmotionType[j]]
                      < emotion_scores[EmotionType[i]]
    IN  EmotionType[first]

Min(a, b) == IF a < b THEN a ELSE b

\* _classify_emotion without the default for a weak signal
ClassifyEmotion_NoDefault(features) ==
    LET emotion_scores == EmotionScores(features)
        max_emotion == MaxEmotion(emotion_scores)
        max_score == emotion_scores[max_emotion]
    IN  [emotion |-> max_emotion,
         confidence |-> Min(max_score, FULL_CONFIDENCE)]

\* _classify_emotion(features)
ClassifyEmotion(features) ==
    LET emotion_scores == EmotionScores(features)
        max_emotion == MaxEmotion(emotion_scores)
        max_score == emotion_scores[max_emotion]
    IN  IF max_score < MIN_CONFIDENCE
        THEN [emotion |-> "NEUTRAL", confidence |-> MIN_CONFIDENCE]
        ELSE [emotion |-> max_emotion,
              confidence |-> Min(max_score, FULL_CONFIDENCE)]

-----------------------------------------------------------------------------
(* EmotionDetector: the history of detected emotions and its queries *)

HISTORY_WINDOW == 300
TREND_WINDOW == 30
DETECTOR_READINESS_WINDOW == 60
DETECTOR_READINESS_SAMPLE == 3

\* EmotionState(emotion, confidence, timestamp, audio_features) as
\* analyze_audio builds it from the smoothed features at clock reading t.
DetectedState(features, t) ==
    LET classified == ClassifyEmotion(features)
    IN  [emotion |-> classified.emotion,
         confidence |-> classified.confidence,
         timestamp |-> t,
         audio_features |-> features]

\* _cleanup_old_history that pops nothing
CleanupOldHistory_Nothing(history, t) == history

\* _cleanup_old_history at clock reading t: entries are popped from the left
\* as long as the leftmost one is older than the history window.
CleanupOldHistory(history, t) ==
    LET cutoff_time == t - HISTORY_WINDOW
        kept == {i \in DOMAIN history : history[i].timestamp >= cutoff_time}
        first == IF kept = {} THEN Len(history) + 1
                 ELSE CHOOSE i \in kept : \A j \in kept : i <= j
    IN  SubSeq(history, first, Len(history))

\* The states of history whose timestamp is within the window at reading t.
DetectedSince(history, window_seconds, t) ==
    SelectSeq(history, LAMBDA s : s.timestamp >= t - window_seconds)

\* get_emotion_trend counting the whole history
EmotionTrend_WholeHistory(history, window_seconds, t) ==
    IF history = <<>> THEN "NEUTRAL"
    ELSE MostFrequent(EmotionsOf(history))

\* get_emotion_trend(window_seconds) at clock reading t
EmotionTrend(history, window_seconds, t) ==
    LET recent_emotions == DetectedSince(history, window_seconds, t)
    IN  IF recent_emotions = <<>> THEN "NEUTRAL"
        ELSE MostFrequent(EmotionsOf(recent_emotions))

\* is_emotionally_ready_for_transition sampling whatever the window holds
DetectorReady_NoMinimum(history, window_seconds, t) ==
    LET recent_emotions == DetectedSince(history, window_seconds, t)
        n == Len(recent_emotions)
        recent_sample ==
            IF n >= DETECTOR_READINESS_SAMPLE
            THEN SubSeq(recent_emotions, n - DETECTOR_READINESS_SAMPLE + 1, n)
            ELSE recent_emotions
        ready_count ==
            Cardinality({i \in DOMAIN recent_sample :
                recent_sample[i].emotion \in {"NEUTRAL", "POSITIVE"}})
        has_sad == \E i \in DOMAIN recent_sample :
                      recent_sample[i].emotion = "SAD"
    IN  IF n = 0 THEN FALSE
        ELSE IF has_sad THEN FALSE
        ELSE 2 * ready_count >= Len(recent_sample)

\* is_emotionally_ready_for_transition that does not look for Sad
DetectorReady_SadIgnored(history, window_seconds, t) ==
    LET recent_emotions == DetectedSince(history, window_seconds, t)
        n == Len(recent_emotions)
        recent_sample ==
            SubSeq(recent_emotions, n - DETECTOR_READINESS_SAMPLE + 1, n)
        ready_count ==
            Cardinality({i \in DOMAIN recent_sample :
                recent_sample[i].emotion \in {"NEUTRAL", "POSITIVE"}})
    IN  IF n < DETECTOR_READINESS_SAMPLE THEN FALSE
        ELSE 2 * ready_count >= Len(recent_sample)

\* is_emotionally_ready_for_transition(window_seconds) at clock reading t
\* (ready_count >= len(recent_sample) / 2 is a float comparison)
DetectorReady(history, window_seconds, t) ==
    LET recent_emotions == DetectedSince(history, window_seconds, t)
        n == Len(recent_emotions)
        recent_sample ==
            SubSeq(recent_emotions, n - DETECTOR_READINESS_SAMPLE + 1, n)
        ready_count ==
            Cardinality({i \in DOMAIN recent_sample :
                recent_sample[i].emotion \in {"NEUTRAL", "POSITIVE"}})
        is_ready == 2 * ready_count >= Len(recent_sample)
        has_sad == \E i \in DOMAIN recent_sample :
                      recent_sample[i].emotion = "SAD"
    IN  IF n < DETECTOR_READINESS_SAMPLE THEN FALSE
        ELSE IF has_sad THEN FALSE
        ELSE is_ready

\* get_emotion_trend(window_seconds)
get_emotion_trend(window_seconds) ==
    /\ ret' = EmotionTrend(emotion_history, window_seconds, now)
    /\ op' = "get_emotion_trend"
    /\ UNCHANGED <<io, now, state, audio>>

\* is_emotionally_ready_for_transition(window_seconds)
is_emotionally_ready_for_transition(window_seconds) ==
    /\ ret' = DetectorReady(emotion_history, window_seconds, now)
    /\ op' = "is_emotionally_ready_for_transition"
    /\ UNCHANGED <<io, now, state, audio>>

\* Smoothed audio features, one vector for each emotion the classifier
\* tells apart, and one that fires no rule.
Features(pitch_variance, energy, tempo) ==
    [pitch_variance |-> pitch_variance, energy |-> energy, tempo |-> tempo]

AUDIO_NEUTRAL == Features(10, 50, 80)
AUDIO_DEFENSIVE == Features(60, 80, 140)
AUDIO_FRUSTRATED == Features(40, 80, 120)
AUDIO_SAD == Features(10, 20, 60)
AUDIO_ANXIOUS == Features(60, 60, 140)
AUDIO_POSITIVE == Features(20, 50, 100)
AUDIO_WEAK == Features(15, 30, 80)

\* The detector read from drawn histories: every drawn history is one that
\* analyze_audio calls leave, chronological and within the history window.
DetectorSamples == {AUDIO_NEUTRAL, AUDIO_DEFENSIVE, AUDIO_SAD, AUDIO_POSITIVE}

\* Age in seconds of a detected state when the detector is read.
DetectorAges == {0, 30, 31, 60, 61}

InitDetector ==
    /\ now = HISTORY_WINDOW
    /\ current_phase = RELATIONSHIP
    /\ phase_start_time = 0
    /\ user_reactions = <<>>
    /\ content_themes = <<>>
    /\ development_plan = NoPlan
    /\ emotional_states = <<>>
    /\ phase_history = <<>>
    /\ \E n \in 0..MaxDetected :
          \E sample \in [1..n -> DetectorSamples],
             age \in [1..n -> DetectorAges] :
             /\ \A i \in 1..(n - 1) : age[i] >= age[i + 1]
             /\ emotion_history =
                   [i \in 1..n |-> DetectedState(sample[i], now - age[i])]
    /\ last_emotion = "none"
    /\ last_emotion_time = NoTime
    /\ utterance = NoUtterance
    /\ session_summary = NoSummary
    /\ last_phase = current_phase
    /\ phase_prompt_injected = FALSE
    /\ output = <<>>
    /\ NoProcess
    /\ op = "init"
    /\ ret = "none"

\* The queries are made with their default windows.
ReadTrend == get_emotion_trend(TREND_WINDOW)

ReadReadiness ==
    is_emotionally_ready_for_transition(DETECTOR_READINESS_WINDOW)

NextDetector ==
    \/ ReadTrend
    \/ ReadReadiness

SpecDetector == InitDetector /\ [][NextDetector]_vars

-----------------------------------------------------------------------------
(* EmotionProcessor: audio analysed by the detector and forwarded to the   *)
(* engine.                                                                 *)

EMIT_MIN_CONFIDENCE == 4
EMIT_MIN_INTERVAL == 10

\* _should_emit_emotion without the confidence threshold
ShouldEmitEmotion_AnyConfidence(emotion_state, last, last_time) ==
    IF last = "none" THEN TRUE
    ELSE IF emotion_state.emotion # last THEN TRUE
    ELSE IF last_time # NoTime
              /\ emotion_state.timestamp - last_time >= EMIT_MIN_INTERVAL
    THEN TRUE
    ELSE FALSE

\* _should_emit_emotion(emotion_state), with _last_emotion = last and
\* _last_emotion_time = last_time
ShouldEmitEmotion(emotion_state, last, last_time) ==
    IF emotion_state.confidence < EMIT_MIN_CONFIDENCE THEN FALSE
    ELSE IF last = "none" THEN TRUE
    ELSE IF emotion_state.emotion # last THEN TRUE
    ELSE IF last_time # NoTime
              /\ emotion_state.timestamp - last_time >= EMIT_MIN_INTERVAL
    THEN TRUE
    ELSE FALSE

\* _analyze_buffered_audio on a full buffer. silent: the buffer's RMS is
\* below the silence threshold. features: the smoothed features that
\* analyze_audio extracts from the buffer and hands to the classifier.
analyze_buffered_audio(silent, features) ==
    LET emotion_state == DetectedState(features, now)
        emit == ShouldEmitEmotion(emotion_state, last_emotion,
                                  last_emotion_time)
    IN  IF silent
        THEN /\ ret' = "silent"
             /\ op' = "analyze_buffered_audio"
             /\ UNCHANGED <<io, now, state, audio>>
        ELSE /\ emotion_history' =
                   CleanupOldHistory(Append(emotion_history, emotion_state),
                                     now)
             /\ emotional_states' = IF emit
                                    THEN Append(emotional_states, emotion_state)
                                    ELSE emotional_states
             /\ last_emotion' = IF emit THEN emotion_state.emotion
                                ELSE last_emotion
             /\ last_emotion_time' = IF emit THEN emotion_state.timestamp
                                     ELSE last_emotion_time
             /\ ret' = IF emit THEN "emitted" ELSE "suppressed"
             /\ op' = "analyze_buffered_audio"
             /\ UNCHANGED <<io, now, current_phase, phase_start_time,
                            user_reactions, content_themes, development_plan,
                            phase_history>>

\* Clock readings at which audio is analysed: 5 and 10 s after the start,
\* and a history window after these.
AudioInstants == {0, 5, 10, 305, 311}

\* What is heard: an emotion, another one, and a signal too weak to tell.
AudioSamples == {AUDIO_NEUTRAL, AUDIO_DEFENSIVE, AUDIO_WEAK}

AudioTick ==
    /\ \E t \in AudioInstants : t > now /\ now' = t
    /\ op' = "tick"
    /\ ret' = "none"
    /\ UNCHANGED <<io, state, audio>>

AnalyzeSilence ==
    \E features \in AudioSamples : analyze_buffered_audio(TRUE, features)

AnalyzeAudio ==
    /\ Len(emotion_history) < MaxDetected
    /\ Len(emotional_states) < MaxStored
    /\ \E features \in AudioSamples : analyze_buffered_audio(FALSE, features)

NextAudio ==
    \/ AudioTick
    \/ AnalyzeSilence
    \/ AnalyzeAudio

SpecAudio == Init /\ [][NextAudio]_vars

\* The classifier applied to a grid of smoothed features: the values on
\* both sides of every threshold of the rules.
PitchVarianceGrid == {14, 15, 30, 36, 40, 51}
EnergyGrid == {29, 30, 50, 56, 70, 71}
TempoGrid == {69, 77, 84, 100, 117, 131}

FeatureGrid ==
    {Features(pitch_variance, energy, tempo) :
        pitch_variance \in PitchVarianceGrid, energy \in EnergyGrid,
        tempo \in TempoGrid}

AnalyzeGrid ==
    /\ Len(emotion_history) < MaxClassified
    /\ \E features \in FeatureGrid : analyze_buffered_audio(FALSE, features)

NextClassify == AnalyzeGrid

SpecClassify == Init /\ [][NextClassify]_vars

\* A session in which the emotions of the engine are the ones that
\* EmotionProcessor stores: the user speaks, audio is analysed at readings
\* more than EMIT_MIN_INTERVAL apart, and should_transition() is polled.
\* The readings are the floor of Relationship and three readings within one
\* readiness window, 185 s to 207 s into a Reaction phase entered at 120 s.
ListeningInstants == {0, 120, 305, 316, 327}

ListeningSamples == {AUDIO_NEUTRAL, AUDIO_POSITIVE, AUDIO_DEFENSIVE}

ListeningTick ==
    /\ \E t \in ListeningInstants : t > now /\ now' = t
    /\ op' = "tick"
    /\ ret' = "none"
    /\ UNCHANGED <<io, state, audio>>

ListeningTranscription ==
    /\ current_phase \in {REACTION, COACHING} =>
          Len(user_reactions) + Len(development_plan.goals) < MaxTexts
    /\ handle_user_transcription(TEXT_SHORT)

AnalyzeHeard ==
    /\ Len(emotion_history) < MaxHeard
    /\ \A i \in DOMAIN emotion_history : emotion_history[i].timestamp # now
    /\ \E features \in ListeningSamples :
          analyze_buffered_audio(FALSE, features)

NextListening ==
    \/ ListeningTick
    \/ ListeningTranscription
    \/ AnalyzeHeard
    \/ Poll

SpecListening == Init /\ [][NextListening]_vars

-----------------------------------------------------------------------------
(* Checkpoints: _save_session_state and _restore_session_state of bot.py   *)
(* with SessionDatabase.update_session_state and get_session_by_id. The    *)
(* column session_summary holds JSON text; the model keeps the value that  *)
(* json.loads gives back for it.                                           *)

Digits == <<"0", "1", "2", "3", "4", "5", "6", "7", "8", "9">>

\* datetime.isoformat(): the clock reading written out as text
RECURSIVE IsoFormat(_)
IsoFormat(t) ==
    IF t < 10
    THEN <<Digits[t + 1]>>
    ELSE IsoFormat(t \div 10) \o <<Digits[(t % 10) + 1]>>

\* datetime.fromisoformat(text) raises ValueError unless this holds.
IsIsoFormat(text) ==
    /\ text # <<>>
    /\ \A i \in DOMAIN text : \E d \in DOMAIN Digits : Digits[d] = text[i]

DigitValue(c) == (CHOOSE d \in DOMAIN Digits : Digits[d] = c) - 1

\* datetime.fromisoformat(text)
RECURSIVE FromIsoFormat(_)
FromIsoFormat(text) ==
    IF Len(text) = 1
    THEN DigitValue(text[1])
    ELSE 10 * FromIsoFormat(SubSeq(text, 1, Len(text) - 1))
            + DigitValue(text[Len(text)])

\* The types json.dumps encodes; any other raises TypeError.
JSON_TYPES == {"str", "int", "float", "bool", "NoneType", "list", "dict"}

\* The Python types of the entries of a phase record.
PHASE_RECORD_TYPES ==
    [phase |-> "str", duration |-> "float", ended_at |-> "datetime"]

\* json.dumps(state_data) returns: the other entries of state_data are
\* strings and lists of strings.
JsonEncodable(history) ==
    \A i \in DOMAIN history : \A key \in DOMAIN history[i] :
        PHASE_RECORD_TYPES[key] \in JSON_TYPES

\* state_data of _save_session_state at clock reading t
StateData(t) ==
    [current_phase |-> current_phase,
     phase_start_time |-> IsoFormat(phase_start_time),
     user_reactions |-> user_reactions,
     content_themes |-> content_themes,
     phase_history |-> phase_history,
     last_saved |-> IsoFormat(t)]

\* _save_session_state(): the TypeError of json.dumps is logged and raised
\* again, and the row keeps what it held.
save_session_state ==
    /\ session_summary' = IF JsonEncodable(phase_history)
                          THEN StateData(now)
                          ELSE session_summary
    /\ op' = "save_session_state"
    /\ ret' = IF JsonEncodable(phase_history) THEN "none" ELSE "TypeError"
    /\ UNCHANGED <<now, state, audio, utterance, processor, process>>

\* R2C2Phase(value) accepting any value
IsPhaseValue_Any(value) == TRUE

\* R2C2Phase(value) returns a member; otherwise it raises ValueError.
IsPhaseValue(value) == value \in R2C2Phase

\* A list that is absent from the snapshot is emptied.
RestoredList_OrEmpty(saved_state, key, prior) ==
    IF key \in DOMAIN saved_state THEN saved_state[key] ELSE <<>>

\* if key in saved_state: restored_state.<key> = saved_state[key]
RestoredList(saved_state, key, prior) ==
    IF key \in DOMAIN saved_state THEN saved_state[key] ELSE prior

\* _restore_session_state(session_id). restored_state is the engine's own
\* state object, so each assignment made before an exception stays. The
\* exceptions are caught and answered with False.
restore_session_state ==
    LET saved_state == session_summary
        found == saved_state # NoSummary
        phase_given == found /\ "current_phase" \in DOMAIN saved_state
        phase_raises == phase_given /\ ~IsPhaseValue(saved_state.current_phase)
        time_given == found /\ "phase_start_time" \in DOMAIN saved_state
        time_raises == /\ ~phase_raises
                       /\ time_given
                       /\ ~IsIsoFormat(saved_state.phase_start_time)
        restored == found /\ ~phase_raises /\ ~time_raises
    IN  /\ current_phase' = IF phase_given /\ ~phase_raises
                            THEN saved_state.current_phase
                            ELSE current_phase
        /\ phase_start_time' =
              IF restored /\ time_given
              THEN FromIsoFormat(saved_state.phase_start_time)
              ELSE phase_start_time
        /\ user_reactions' =
              IF restored
              THEN RestoredList(saved_state, "user_reactions", user_reactions)
              ELSE user_reactions
        /\ content_themes' =
              IF restored
              THEN RestoredList(saved_state, "content_themes", content_themes)
              ELSE content_themes
        /\ phase_history' =
              IF restored
              THEN RestoredList(saved_state, "phase_history", phase_history)
              ELSE phase_history
        /\ op' = "restore_session_state"
        /\ ret' = IF restored THEN "True" ELSE "False"
        /\ UNCHANGED <<now, development_plan, emotional_states, audio, io>>

\* The connection is made, and the engine constructed, at CONNECTED; the
\* row of the session was written before.
CONNECTED == 200

\* A complete snapshot, as a session in Content leaves it.
SNAPSHOT ==
    [current_phase |-> CONTENT,
     phase_start_time |-> IsoFormat(120),
     user_reactions |-> <<TEXT_SHORT>>,
     content_themes |-> <<KW_feedback>>,
     phase_history |-> <<>>,
     last_saved |-> IsoFormat(125)]

Partial(snapshot, keys) == [key \in keys |-> snapshot[key]]

\* What the row of the session may hold at the connection: nothing, the
\* snapshot, parts of it, or a damaged one.
StoredSnapshots ==
    {NoSummary,
     SNAPSHOT,
     Partial(SNAPSHOT, {"last_saved"}),
     Partial(SNAPSHOT, {"current_phase"}),
     Partial(SNAPSHOT, {"phase_start_time"}),
     Partial(SNAPSHOT, {"user_reactions", "last_saved"}),
     Partial(SNAPSHOT, {"content_themes", "phase_history"}),
     [SNAPSHOT EXCEPT !.current_phase = "closing"],
     [Partial(SNAPSHOT, {"current_phase", "content_themes"})
         EXCEPT !.current_phase = "RELATIONSHIP"],
     [SNAPSHOT EXCEPT !.phase_start_time = <<"n", "o", "w">>]}


InitCheckpoint ==
    /\ now = CONNECTED
    /\ current_phase = RELATIONSHIP
    /\ phase_start_time = CONNECTED
    /\ user_reactions = <<>>
    /\ content_themes = <<>>
    /\ development_plan = NoPlan
    /\ emotional_states = <<>>
    /\ phase_history = <<>>
    /\ emotion_history = <<>>
    /\ last_emotion = "none"
    /\ last_emotion_time = NoTime
    /\ utterance = NoUtterance
    /\ session_summary \in StoredSnapshots
    /\ last_phase = current_phase
    /\ phase_prompt_injected = FALSE
    /\ output = <<>>
    /\ NoProcess
    /\ op = "init"
    /\ ret = "none"

\* Clock readings at which checkpoints are written and read.
CheckpointInstants == {CONNECTED, 330}

CheckpointTick ==
    /\ \E t \in CheckpointInstants : t > now /\ now' = t
    /\ op' = "tick"
    /\ ret' = "none"
    /\ UNCHANGED <<state, audio, io>>

CheckpointTransition ==
    /\ Len(phase_history) < MaxHistory
    /\ transition_to_next_phase

\* The user says one utterance, heard with an emotion.
CheckpointResponse ==
    /\ Len(user_reactions) + Len(development_plan.goals) < MaxTexts
    /\ Len(emotional_states) < MaxTexts
    /\ record_user_response(TEXT_GOAL, EmotionState("neutral", now))

NextCheckpoint ==
    \/ CheckpointTick
    \/ CheckpointTransition
    \/ CheckpointResponse
    \/ save_session_state
    \/ restore_session_state

SpecCheckpoint == InitCheckpoint /\ [][NextCheckpoint]_vars

-----------------------------------------------------------------------------
(* Sessions of one process: run_bot and its handlers, which reach the      *)
(* session id, the database and the engine through the module globals of   *)
(* bot.py. The engine built by run_bot call b is engine b; of its state the *)
(* model keeps the phase, the phase clock and the phase history. None of   *)
(* the handlers awaits between reading the globals and writing the row.    *)

\* R2C2Engine(feedback_data=feedback_obj) built at clock reading t
NewEngine(t) ==
    [current_phase |-> RELATIONSHIP, phase_start_time |-> t,
     phase_history |-> <<>>]

\* The row INSERTed by create_session
NewRow == [session_summary |-> NoSummary, ended |-> FALSE]

\* The object the global r2c2_engine refers to
GlobalEngine == bots[r2c2_engine].engine

\* if current_session_id and session_db and r2c2_engine
GlobalsSet == current_session_id # 0 /\ r2c2_engine # 0

\* state_data of _save_session_state, read from the global engine
GlobalStateData ==
    [written |-> "state_data",
     engine |-> r2c2_engine,
     current_phase |-> GlobalEngine.current_phase,
     phases |-> [i \in DOMAIN GlobalEngine.phase_history |->
                    GlobalEngine.phase_history[i].phase]]

\* get_session_summary() of the global engine, as _end_session stores it
GlobalSummary ==
    [written |-> "summary",
     engine |-> r2c2_engine,
     current_phase |-> GlobalEngine.current_phase,
     phases |-> [i \in DOMAIN GlobalEngine.phase_history |->
                    GlobalEngine.phase_history[i].phase]]

\* A call of SessionDatabase made by a handler of run_bot call b
DbCall(b, call, session_id, engine) ==
    [by |-> b, call |-> call, session_id |-> session_id, engine |-> engine]

\* _save_session_state() returns; json.dumps raises TypeError otherwise
SaveReturns == JsonEncodable(GlobalEngine.phase_history)

\* The table after _save_session_state()
RowsSaved ==
    IF SaveReturns
    THEN [rows EXCEPT ![current_session_id].session_summary = GlobalStateData]
    ELSE rows

\* run_bot, up to the start of the pipeline: the row is created and the
\* engine is built, and both are kept in the globals.
run_bot(b) ==
    /\ bots[b].stage = "idle"
    /\ rows' = Append(rows, NewRow)
    /\ current_session_id' = Len(rows) + 1
    /\ r2c2_engine' = b
    /\ bots' = [bots EXCEPT ![b] = [stage |-> "running",
                                    session_id |-> Len(rows) + 1,
                                    engine |-> NewEngine(now)]]
    /\ db_calls' = <<DbCall(b, "create_session", Len(rows) + 1, b)>>
    /\ op' = "run_bot"
    /\ ret' = "none"
    /\ UNCHANGED <<utterance, session_summary, processor, now, state, audio>>

\* transition_to_next_phase() of the engine built by run_bot call b
engine_transition(b) ==
    LET engine == bots[b].engine
    IN  /\ bots[b].stage = "running"
        /\ bots' =
              [bots EXCEPT ![b].engine =
                  [current_phase |-> NextPhase(engine.current_phase),
                   phase_start_time |-> now,
                   phase_history |->
                       Append(engine.phase_history,
                              PhaseRecord(engine.current_phase,
                                          TimeInPhase(engine.phase_start_time,
                                                      now),
                                          now))]]
        /\ db_calls' = <<>>
        /\ op' = "transition_to_next_phase"
        /\ ret' = "none"
        /\ UNCHANGED <<current_session_id, r2c2_engine, rows, utterance,
                       session_summary, processor, now, state, audio>>

\* One round of auto_save_session of run_bot call b; an exception of the
\* save is logged.
auto_save_session(b) ==
    /\ bots[b].stage = "running"
    /\ IF GlobalsSet
       THEN /\ rows' = RowsSaved
            /\ db_calls' = <<DbCall(b, "update_session_state",
                                    current_session_id, r2c2_engine)>>
       ELSE /\ rows' = rows
            /\ db_calls' = <<>>
    /\ op' = "auto_save_session"
    /\ ret' = "none"
    /\ UNCHANGED <<current_session_id, r2c2_engine, bots, utterance,
                   session_summary, processor, now, state, audio>>

\* on_client_disconnected of run_bot call b: the state is saved (an
\* exception is logged) and the pipeline task is cancelled.
on_client_disconnected(b) ==
    /\ bots[b].stage = "running"
    /\ IF GlobalsSet
       THEN /\ rows' = RowsSaved
            /\ db_calls' = <<DbCall(b, "update_session_state",
                                    current_session_id, r2c2_engine)>>
       ELSE /\ rows' = rows
            /\ db_calls' = <<>>
    /\ bots' = [bots EXCEPT ![b].stage = "cancelled"]
    /\ op' = "on_client_disconnected"
    /\ ret' = "none"
    /\ UNCHANGED <<current_session_id, r2c2_engine, utterance,
                   session_summary, processor, now, state, audio>>

\* The finally block of run_bot call b: the final save, and when it
\* returned, _end_session().
run_bot_finally(b) ==
    /\ bots[b].stage \in {"running", "cancelled"}
    /\ IF GlobalsSet
       THEN IF SaveReturns
            THEN /\ rows' =
                       [rows EXCEPT ![current_session_id] =
                           [session_summary |-> GlobalSummary,
                            ended |-> TRUE]]
                 /\ db_calls' =
                       <<DbCall(b, "update_session_state",
                                current_session_id, r2c2_engine),
                         DbCall(b, "end_session", current_session_id,
                                r2c2_engine)>>
            ELSE /\ rows' = rows
                 /\ db_calls' = <<DbCall(b, "update_session_state",
                                         current_session_id, r2c2_engine)>>
       ELSE /\ rows' = rows
            /\ db_calls' = <<>>
    /\ bots' = [bots EXCEPT ![b].stage = "finished"]
    /\ op' = "run_bot_finally"
    /\ ret' = "none"
    /\ UNCHANGED <<current_session_id, r2c2_engine, utterance,
                   session_summary, processor, now, state, audio>>

StartBot == \E b \in Bots : run_bot(b)

EngineTransition ==
    \E b \in Bots :
        /\ Len(bots[b].engine.phase_history) < MaxRecords
        /\ engine_transition(b)

AutoSave == \E b \in Bots : auto_save_session(b)

Disconnect == \E b \in Bots : on_client_disconnected(b)

Finish == \E b \in Bots : run_bot_finally(b)

NextProcess ==
    \/ StartBot
    \/ EngineTransition
    \/ AutoSave
    \/ Disconnect
    \/ Finish

SpecProcess == Init /\ [][NextProcess]_vars

-----------------------------------------------------------------------------
(* Vocabulary of the properties *)

Elapsed == now - phase_start_time

Polled == op = "should_transition"

Transitioned == op = "transition_to_next_phase"

Successor ==
    [p \in R2C2Phase |->
        CASE p = RELATIONSHIP -> REACTION
          [] p = REACTION -> CONTENT
          [] OTHER -> COACHING]

CompletedBefore ==
    [p \in R2C2Phase |->
        CASE p = RELATIONSHIP -> <<>>
          [] p = REACTION -> <<"relationship">>
          [] p = CONTENT -> <<"relationship", "reaction">>
          [] OTHER -> <<"relationship", "reaction", "content">>]

\* The emotion entries of the last 60 s, and the at most 3 last of them.
InWindow == SelectSeq(emotional_states, LAMBDA e : now - e.timestamp <= 60)

Sampled ==
    IF Len(InWindow) > 3
    THEN [i \in 1..3 |-> InWindow[Len(InWindow) - 3 + i]]
    ELSE InWindow

SampledReady ==
    {i \in DOMAIN Sampled : Sampled[i].emotion \in {"neutral", "positive"}}

ReadyMajority == 2 * Cardinality(SampledReady) >= Len(Sampled)

SampledSad == \E i \in DOMAIN Sampled : Sampled[i].emotion = "sad"

DistinctThemes == {content_themes[i] : i \in DOMAIN content_themes}

-----------------------------------------------------------------------------
(* Properties of transition_to_next_phase, checked under Spec *)

\* C1 (as claimed): transition_to_next_phase() called in Coaching returns
\* Coaching and changes nothing: phase_history and every other field of the
\* conversation state are as before the call.
C1_CoachingTransitionIsNoOp ==
    [][(current_phase = COACHING /\ Transitioned')
          => (ret' = COACHING /\ UNCHANGED state)]_vars

\* C2: no operation moves the phase backwards or over a phase, and
\* transition_to_next_phase() moves it to its successor, and from Coaching
\* to Coaching.
C2_PhaseOnlyMovesForward ==
    [][/\ PhaseIndex(current_phase') >= PhaseIndex(current_phase)
       /\ PhaseIndex(current_phase') <= PhaseIndex(current_phase) + 1
       /\ Transitioned' => current_phase' = Successor[current_phase]
       /\ ~Transitioned' => current_phase' = current_phase]_vars

\* C2 happens: a session has gone through the four phases and a further
\* transition call has left it in Coaching.
C2_Witness ==
    /\ Transitioned
    /\ current_phase = COACHING
    /\ Len(phase_history) = 4

\* C3 (as claimed): phase_history holds one record per phase before the
\* current one, in phase order.
C3_HistoryMatchesPhase ==
    [i \in DOMAIN phase_history |-> phase_history[i].phase]
        = CompletedBefore[current_phase]

\* C4: a transition_to_next_phase() call in a phase other than Coaching
\* appends one record, naming the phase left with the time spent in it,
\* moves to the successor, restarts the phase clock at now and returns the
\* new phase.
C4_TransitionRecordsAndAdvances ==
    [][(current_phase # COACHING /\ Transitioned') =>
          /\ Len(phase_history') = Len(phase_history) + 1
          /\ SubSeq(phase_history', 1, Len(phase_history)) = phase_history
          /\ phase_history'[Len(phase_history')].phase = current_phase
          /\ phase_history'[Len(phase_history')].duration = Elapsed
          /\ current_phase' = Successor[current_phase]
          /\ phase_start_time' = now
          /\ now' = now
          /\ ret' = current_phase']_vars

\* C4 happens: the engine built at 0 is moved on at 130 s, returns Reaction
\* and holds the single record of 130 s of relationship; and a later phase,
\* entered at 130 s, was left at 730 s.
C4_Witness ==
    /\ Transitioned
    /\ Len(phase_history) >= 2
    /\ phase_history[1] = [phase |-> "relationship", duration |-> 130,
                           ended_at |-> 130]
    /\ phase_history[2].phase = "reaction"
    /\ phase_history[2].duration = 600
    /\ current_phase = CONTENT
    /\ ret = CONTENT
    /\ Elapsed = 0

-----------------------------------------------------------------------------
(* Properties of should_transition, checked under SpecDecide *)

\* C5: in Relationship should_transition() is false below 90 s, true from
\* 120 s on whatever the emotions, and between the two it is the answer of
\* the engine's 60 second readiness check.
C5_RelationshipThresholds ==
    (Polled /\ current_phase = RELATIONSHIP) =>
        /\ Elapsed < 90 => ret = FALSE
        /\ Elapsed >= 120 => ret = TRUE
        /\ (Elapsed >= 90 /\ Elapsed < 120) =>
              ret = IsEmotionallyReady(emotional_states, now)

\* C5 happens: an early exit at 90 s on ready emotions.
C5_Witness ==
    /\ Polled
    /\ current_phase = RELATIONSHIP
    /\ Elapsed >= 90
    /\ Elapsed < 120
    /\ Len(InWindow) >= 3
    /\ ret = TRUE

\* C6 (as claimed): in Reaction between 180 s and 600 s should_transition()
\* is true only if the sampled entries have a ready majority and none of
\* them is Sad.
C6_ReactionNeedsReadyAndNoSad ==
    (Polled /\ current_phase = REACTION /\ Elapsed >= 180 /\ Elapsed < 600
        /\ ret = TRUE)
        => (ReadyMajority /\ ~SampledSad)

\* C6 fails here: Reaction polled at 181 s with Neutral, Neutral, Sad in
\* the last 60 s answers true.
C6_FailingInput ==
    /\ Polled
    /\ current_phase = REACTION
    /\ Elapsed = 181
    /\ [i \in DOMAIN InWindow |-> InWindow[i].emotion]
          = <<"neutral", "neutral", "sad">>
    /\ ret = TRUE

\* C7 (as claimed): with fewer than 3 entries in the last 60 s the readiness
\* check fails, so should_transition() is false in Reaction between 180 s
\* and 600 s and in Relationship between 90 s and 120 s.
C7_FewerThanThreeIsNotReady ==
    (/\ Polled
     /\ Len(InWindow) < 3
     /\ \/ current_phase = REACTION /\ Elapsed >= 180 /\ Elapsed < 600
        \/ current_phase = RELATIONSHIP /\ Elapsed >= 90 /\ Elapsed < 120)
        => ret = FALSE

\* C7 fails here: Reaction polled at 181 s with a single Neutral entry in
\* the last 60 s answers true.
C7_FailingInput ==
    /\ Polled
    /\ current_phase = REACTION
    /\ Elapsed = 181
    /\ [i \in DOMAIN InWindow |-> InWindow[i].emotion] = <<"neutral">>
    /\ ret = TRUE

\* C8: from 600 s on in Reaction and from 720 s on in Content
\* should_transition() is true, whatever the emotions and the themes.
C8_CeilingsAreUnconditional ==
    (/\ Polled
     /\ \/ current_phase = REACTION /\ Elapsed >= 600
        \/ current_phase = CONTENT /\ Elapsed >= 720)
        => ret = TRUE

\* C8 happens: the Reaction ceiling with three recent entries, none ready.
C8_Witness ==
    /\ Polled
    /\ current_phase = REACTION
    /\ Elapsed >= 600
    /\ Len(InWindow) = 3
    /\ SampledReady = {}
    /\ SampledSad
    /\ ret = TRUE

\* C9: in Content should_transition() is false below 240 s, and between
\* 240 s and 720 s it is true exactly when 2 or more distinct themes are
\* recorded.
C9_ContentNeedsTwoThemes ==
    (Polled /\ current_phase = CONTENT) =>
        /\ Elapsed < 240 => ret = FALSE
        /\ (Elapsed >= 240 /\ Elapsed < 720) =>
              (ret = TRUE <=> Cardinality(DistinctThemes) >= 2)

\* C9 happens: exactly two themes at the floor of 240 s.
C9_Witness ==
    /\ Polled
    /\ current_phase = CONTENT
    /\ Elapsed = 240
    /\ Cardinality(DistinctThemes) = 2
    /\ ret = TRUE

\* C10: in Coaching should_transition() is false.
C10_CoachingNeverTransitions ==
    (Polled /\ current_phase = COACHING) => ret = FALSE

\* C10 happens: Coaching polled after 720 s with ready emotions, three
\* themes and a goal.
C10_Witness ==
    /\ Polled
    /\ current_phase = COACHING
    /\ Elapsed >= 720
    /\ Len(InWindow) = 3
    /\ Cardinality(SampledReady) = 3
    /\ Cardinality(DistinctThemes) = 3
    /\ Len(development_plan.goals) = 1
    /\ ret = FALSE

-----------------------------------------------------------------------------
(* Frame of should_transition, checked under SpecDecide *)

\* The entries of emotional_states before the last one.
EarlierEmotions == SubSeq(emotional_states, 1, Len(emotional_states) - 1)

\* C11: should_transition(emotion_state) changes the conversation state only
\* by appending the supplied emotion to emotional_states, its answer is the
\* decision on the history that holds the appended entry, every other field
\* is left as it was, and a call without an emotion changes nothing.
C11_PollOnlyAppendsEmotion ==
    [][Polled' =>
          /\ UNCHANGED <<now, current_phase, phase_start_time, user_reactions,
                         content_themes, development_plan, phase_history>>
          /\ \/ emotional_states' = emotional_states
             \/ /\ Len(emotional_states') = Len(emotional_states) + 1
                /\ EarlierEmotions' = emotional_states
                /\ emotional_states'[Len(emotional_states')].timestamp = now
          /\ ret' = ShouldTransitionDecision(current_phase, Elapsed,
                                             emotional_states',
                                             content_themes, now)
          /\ Poll => UNCHANGED state]_vars

\* C11 happens: Relationship polled at 90 s with a Neutral entry; the one
\* entry recorded before it is not ready, and the answer is true.
C11_Witness ==
    /\ Polled
    /\ current_phase = RELATIONSHIP
    /\ Elapsed = 90
    /\ Len(emotional_states) = 2
    /\ emotional_states[2] = EmotionState("neutral", now)
    /\ ~IsEmotionallyReady(EarlierEmotions, now)
    /\ ret = TRUE

-----------------------------------------------------------------------------
(* Frame of the phase and its clock, checked under SpecRead *)

ReadOps == {"get_phase_prompt", "get_pacing_recommendation",
            "get_phase_guidance", "get_session_summary"}

\* C12: only transition_to_next_phase() changes current_phase or
\* phase_start_time; record_user_response, should_transition and the four
\* read operations leave both as they were, so between two transitions the
\* time in the phase grows exactly as the clock does.
C12_OnlyTransitionMovesPhaseClock ==
    [][~Transitioned' =>
          /\ current_phase' = current_phase
          /\ phase_start_time' = phase_start_time
          /\ now' >= now
          /\ Elapsed' = Elapsed + (now' - now)]_vars

\* C12 happens: Reaction, entered at 130 s, is read at 730 s after a
\* response was recorded in it, and the reading reports 600 s in the phase.
C12_Witness ==
    /\ op = "get_phase_guidance"
    /\ current_phase = REACTION
    /\ phase_start_time = 130
    /\ Len(user_reactions) >= 1
    /\ ret.time_in_phase = 600

-----------------------------------------------------------------------------
(* The engine driven by R2C2Processor, checked under SpecDriver *)

MinDuration ==
    [p \in R2C2Phase |->
        CASE p = RELATIONSHIP -> 90
          [] p = REACTION -> 180
          [] p = CONTENT -> 240
          [] OTHER -> 0]

\* C13: when transition_to_next_phase() is called only after
\* should_transition() answered true, every record of phase_history has a
\* duration of at least 90 s for relationship, 180 s for reaction and 240 s
\* for content.
C13_DrivenPhasesLastTheirFloor ==
    \A i \in DOMAIN phase_history :
        phase_history[i].duration >= MinDuration[phase_history[i].phase]

\* C13 happens: a driven session has left the three phases at their floors,
\* after exactly 90 s, 180 s and 240 s.
C13_Witness ==
    /\ op = "handle_user_transcription"
    /\ [i \in DOMAIN phase_history |-> phase_history[i].duration]
          = <<90, 180, 240>>
    /\ current_phase = COACHING

-----------------------------------------------------------------------------
(* Progress of the driven engine, checked under SpecLive *)

AtCeiling ==
    \/ current_phase = RELATIONSHIP /\ Elapsed >= 120
    \/ current_phase = REACTION /\ Elapsed >= 600
    \/ current_phase = CONTENT /\ Elapsed >= 720

\* C14: while the clock advances and the driver polls and moves on at every
\* true answer, the session reaches Coaching whatever the emotions and the
\* utterances; and a poll made 120 s into Relationship, 600 s into Reaction
\* or 720 s into Content, or later, ends that phase.
C14_DrivenSessionReachesCoaching ==
    /\ <>(current_phase = COACHING)
    /\ [][(AtCeiling /\ op' = "handle_user_transcription") =>
             /\ ret' = "advance"
             /\ current_phase' = Successor[current_phase]]_vars

\* C14 happens: Coaching is reached by the three ceilings alone, after
\* exactly 120 s, 600 s and 720 s.
C14_Witness ==
    /\ current_phase = COACHING
    /\ [i \in DOMAIN phase_history |-> phase_history[i].duration]
          = <<120, 600, 720>>

-----------------------------------------------------------------------------
(* Properties of the detector's queries, checked under SpecDetector *)

AskedReadiness == op = "is_emotionally_ready_for_transition"

AskedTrend == op = "get_emotion_trend"

\* The emotions detected in the last w seconds, and the at most 3 last of
\* them.
Heard(w) ==
    LET inside == SelectSeq(emotion_history,
                            LAMBDA s : now - s.timestamp <= w)
    IN  [i \in DOMAIN inside |-> inside[i].emotion]

LastHeard(w) ==
    LET n == Len(Heard(w))
    IN  IF n > 3 THEN [i \in 1..3 |-> Heard(w)[n - 3 + i]] ELSE Heard(w)

HeardSad(w) == \E i \in DOMAIN LastHeard(w) : LastHeard(w)[i] = "SAD"

HeardReady(w) ==
    Cardinality({i \in DOMAIN LastHeard(w) :
                    LastHeard(w)[i] \in {"NEUTRAL", "POSITIVE"}})

HeardTimes(w, e) ==
    Cardinality({i \in DOMAIN Heard(w) : Heard(w)[i] = e})

\* C15: the detector's readiness check answers false whenever one of the
\* last 3 emotions detected in the last 60 s is Sad.
C15_SadIsNeverReady ==
    (AskedReadiness /\ HeardSad(60)) => ret = FALSE

\* C15 happens: Sad follows two ready emotions, all three in the window.
C15_Witness ==
    /\ AskedReadiness
    /\ Len(Heard(60)) >= 3
    /\ HeardSad(60)
    /\ HeardReady(60) = 2
    /\ ret = FALSE

\* C16: the detector's readiness check answers false when fewer than 3
\* emotions were detected in the last 60 s; with 3 or more, none of the last
\* 3 being Sad, it answers true exactly when at least 2 of the last 3 are
\* Neutral or Positive.
C16_ReadinessNeedsThreeAndMajority ==
    AskedReadiness =>
        /\ Len(Heard(60)) < 3 => ret = FALSE
        /\ (Len(Heard(60)) >= 3 /\ ~HeardSad(60)) =>
              (ret = TRUE <=> HeardReady(60) >= 2)

\* C16 happens: two ready emotions alone in the window, after an older
\* emotion outside of it, are not enough.
C16_Witness ==
    /\ AskedReadiness
    /\ Len(emotion_history) >= 3
    /\ Heard(60) = <<"NEUTRAL", "POSITIVE">>
    /\ ret = FALSE

\* C17: get_emotion_trend answers Neutral when no emotion was detected in
\* its window, and otherwise an emotion that no other emotion outnumbers
\* among those detected in the window, whatever was detected before it.
C17_TrendIsMostFrequentInWindow ==
    AskedTrend =>
        IF Heard(30) = <<>>
        THEN ret = "NEUTRAL"
        ELSE /\ HeardTimes(30, ret) >= 1
             /\ \A e \in EmotionTypes : HeardTimes(30, e) <= HeardTimes(30, ret)

\* C17 happens: one Sad in the window outweighs three Defensive before it.
C17_Witness ==
    /\ AskedTrend
    /\ Heard(30) = <<"SAD">>
    /\ EmotionsOf(emotion_history)
          = <<"DEFENSIVE", "DEFENSIVE", "DEFENSIVE", "SAD">>
    /\ ret = "SAD"

-----------------------------------------------------------------------------
(* Properties of the audio pipeline, checked under SpecAudio *)

Analysed == op = "analyze_buffered_audio" /\ ret # "silent"

\* C18: after every insertion by analyze_audio no retained state is older
\* than the history window of 300 s, and the retained states are in
\* chronological order, the inserted one last.
C18_HistoryIsRecentAndOrdered ==
    Analysed =>
        /\ emotion_history # <<>>
        /\ emotion_history[Len(emotion_history)].timestamp = now
        /\ \A i \in DOMAIN emotion_history :
              emotion_history[i].timestamp >= now - 300
        /\ \A i \in DOMAIN emotion_history : \A j \in DOMAIN emotion_history :
              i < j => emotion_history[i].timestamp
                          <= emotion_history[j].timestamp

\* C18 happens: at 305 s the state detected at 5 s is retained and the one
\* detected at 0 s, which the engine was sent, is gone.
C18_Witness ==
    /\ Analysed
    /\ now = 305
    /\ [i \in DOMAIN emotion_history |-> emotion_history[i].timestamp]
          = <<5, 305>>
    /\ emotional_states # <<>>
    /\ emotional_states[1].timestamp = 0

\* The state analyze_audio has just inserted.
Inserted == emotion_history[Len(emotion_history)]

-----------------------------------------------------------------------------
(* Properties of the classifier, checked under SpecClassify *)

\* The largest score the six rules give to the features.
TopScore(features) ==
    LET emotion_scores == EmotionScores(features)
    IN  CHOOSE top \in 0..10 :
           /\ \E e \in EmotionTypes : emotion_scores[e] = top
           /\ \A e \in EmotionTypes : emotion_scores[e] <= top

\* C20: every classification is one of the six emotions with a confidence
\* between 0.3 and 1.0; it is Neutral with a confidence of exactly 0.3 when
\* the largest score is below 0.3, and otherwise the confidence is the
\* largest score, capped at 1.0 (confidences and scores are in tenths).
C20_ConfidenceIsBounded ==
    \A i \in DOMAIN emotion_history :
        LET detected == emotion_history[i]
            top == TopScore(detected.audio_features)
        IN  /\ detected.emotion \in
                  {"NEUTRAL", "DEFENSIVE", "FRUSTRATED", "SAD", "ANXIOUS",
                   "POSITIVE"}
            /\ detected.confidence >= 3
            /\ detected.confidence <= 10
            /\ top < 3 => (detected.emotion = "NEUTRAL"
                             /\ detected.confidence = 3)
            /\ top >= 3 => detected.confidence = Min(top, 10)

\* C20 happens: features that fire no rule are classified Neutral at 0.3.
C20_Witness ==
    /\ Analysed
    /\ TopScore(Inserted.audio_features) = 0
    /\ Inserted.emotion = "NEUTRAL"
    /\ Inserted.confidence = 3

\* The order in which equal scores are resolved.
TieOrder == <<"NEUTRAL", "DEFENSIVE", "FRUSTRATED", "SAD", "ANXIOUS", "POSITIVE">>

TiePosition(e) == CHOOSE i \in DOMAIN TieOrder : TieOrder[i] = e

\* C21: the classified emotion has the largest score of the six rules, and
\* every emotion before it in the order Neutral, Defensive, Frustrated, Sad,
\* Anxious, Positive has a smaller score; features with pitch_variance > 50,
\* tempo > 1.3 and energy > 0.7 are Defensive with confidence 1.0, and
\* features with energy < 0.3, tempo < 0.7 and pitch_variance < 15 are Sad.
C21_FirstOfLargestScores ==
    \A i \in DOMAIN emotion_history :
        LET detected == emotion_history[i]
            features == detected.audio_features
            emotion_scores == EmotionScores(features)
        IN  /\ \A e \in DOMAIN emotion_scores :
                  /\ emotion_scores[e] <= emotion_scores[detected.emotion]
                  /\ TiePosition(e) < TiePosition(detected.emotion)
                        => emotion_scores[e] < emotion_scores[detected.emotion]
            /\ (features.pitch_variance > 50 /\ features.tempo > 130
                   /\ features.energy > 70)
                  => (detected.emotion = "DEFENSIVE"
                         /\ detected.confidence = 10)
            /\ (features.energy < 30 /\ features.tempo < 70
                   /\ features.pitch_variance < 15)
                  => detected.emotion = "SAD"

\* C21 happens: features above the three high thresholds give Defensive,
\* Frustrated and Anxious the score 1.0 each and are classified Defensive.
C21_Witness ==
    /\ Analysed
    /\ Inserted.audio_features.pitch_variance > 50
    /\ Inserted.audio_features.tempo > 130
    /\ Inserted.audio_features.energy > 70
    /\ EmotionScores(Inserted.audio_features)["FRUSTRATED"] = 10
    /\ EmotionScores(Inserted.audio_features)["ANXIOUS"] = 10
    /\ Inserted.emotion = "DEFENSIVE"

-----------------------------------------------------------------------------
(* Properties of the utterance bookkeeping, checked under SpecRecord *)

\* A call of record_user_response, made in the given phase.
RecordedIn(phase) ==
    op' = "record_user_response" /\ current_phase = phase

\* The text and the emotion the last call was made with.
Said == utterance[1]
SaidEmotion == utterance[2]

TwelveKeywords ==
    {KW_communication, KW_leadership, KW_collaboration, KW_feedback,
     KW_delegation, KW_listening, KW_empathy, KW_decision_making,
     KW_accountability, KW_follow_through, KW_organization, KW_planning}

\* The keywords a text mentions, whatever the case of its letters.
Mentions(text) == {k \in TwelveKeywords : Contains(Lower(text), k)}

ThemesRecorded == {content_themes[i] : i \in DOMAIN content_themes}

\* The themes a call has appended.
NewThemes ==
    SubSeq(content_themes', Len(content_themes) + 1, Len(content_themes'))

KeywordPosition(k) == CHOOSE i \in DOMAIN keywords : keywords[i] = k

C23_ResponseIsRoutedByPhase ==
    [][op' = "record_user_response" =>
          /\ user_reactions' = IF current_phase = REACTION
                               THEN Append(user_reactions, Said')
                               ELSE user_reactions
          /\ current_phase # CONTENT => content_themes' = content_themes
          /\ current_phase # COACHING => development_plan' = development_plan
          /\ current_phase = RELATIONSHIP =>
                UNCHANGED <<user_reactions, content_themes, development_plan>>
          /\ emotional_states' = IF SaidEmotion' # NoEmotion
                                 THEN Append(emotional_states, SaidEmotion')
                                 ELSE emotional_states
          /\ UNCHANGED <<current_phase, phase_start_time, phase_history>>]_vars

\* C23 happens: a text with a theme and an action word, recorded with an
\* emotion in Relationship, leaves only the emotion behind.
C23_Witness ==
    /\ op = "record_user_response"
    /\ current_phase = RELATIONSHIP
    /\ Said = TEXT_GOAL
    /\ emotional_states = <<SaidEmotion>>
    /\ SaidEmotion # NoEmotion
    /\ user_reactions = <<>>
    /\ content_themes = <<>>
    /\ development_plan = NoPlan

\* A text that is empty or holds only spaces.
Blank(text) == \A i \in DOMAIN text : text[i] = " "

\* C24: record_user_response with an empty or whitespace-only text leaves
\* the reaction log, the content themes and the development plan, the
\* existence of a plan included, as they were, in every phase.
C24_BlankTextIsNoOp ==
    [][(op' = "record_user_response" /\ Blank(Said')) =>
          UNCHANGED <<user_reactions, content_themes, development_plan>>]_vars

\* The lowercased text holds one of the given words.
HasWord(lowered, words) ==
    \E i \in DOMAIN words : Contains(lowered, words[i])

\* The family of action words a text belongs to, in any case of its
\* letters: start before stop before continue.
Family(text) ==
    LET lowered == Lower(text)
    IN  IF HasWord(lowered, START_WORDS) THEN "start"
        ELSE IF HasWord(lowered, STOP_WORDS) THEN "stop"
        ELSE IF HasWord(lowered, CONTINUE_WORDS) THEN "continue"
        ELSE "none"

\* C25: in Coaching record_user_response appends a goal if and only if the
\* lowercased text holds a word of the start, stop or continue family and
\* the raw text is longer than 20 characters; it then appends exactly one
\* goal, which carries the detected type and the raw text, after the goals
\* recorded before.
C25_GoalNeedsActionWordAndLength ==
    [][RecordedIn(COACHING) =>
          /\ development_plan'.exists
          /\ LET family == Family(Said')
                 goal == development_plan'.goals[Len(development_plan'.goals)]
             IN  IF family # "none" /\ Len(Said') > 20
                 THEN /\ Len(development_plan'.goals)
                            = Len(development_plan.goals) + 1
                      /\ SubSeq(development_plan'.goals, 1,
                                Len(development_plan.goals))
                            = development_plan.goals
                      /\ goal.type = family
                      /\ goal.description = Said'
                 ELSE development_plan'.goals
                         = development_plan.goals]_vars

\* C25 happens: a text of 21 characters with a word of the stop family,
\* recorded in Coaching, left one goal of type stop with the raw text.
C25_Witness ==
    /\ op = "record_user_response"
    /\ current_phase = COACHING
    /\ Said = TEXT_AVOID
    /\ Len(Said) = 21
    /\ Len(development_plan.goals) = 1
    /\ development_plan.goals[1].type = "stop"
    /\ development_plan.goals[1].description = TEXT_AVOID

-----------------------------------------------------------------------------
(* Properties of the checkpoints, checked under SpecCheckpoint *)

Saved == op' = "save_session_state"
Restored == op' = "restore_session_state"

\* C26: a restore made from the checkpoint that _save_session_state has
\* just written succeeds and gives the engine the current_phase and the
\* phase_start_time it had at the save, so the time in the phase read at
\* the same clock reading is the same; this in each of the four phases.
C26_SaveThenRestoreIsRoundTrip ==
    [][(op = "save_session_state" /\ Restored) =>
          /\ ret' = "True"
          /\ current_phase' = current_phase
          /\ phase_start_time' = phase_start_time
          /\ TimeInPhase(phase_start_time', now')
                = TimeInPhase(phase_start_time, now)]_vars

\* C27: every checkpoint is written: _save_session_state does not raise,
\* and the row then holds the phase, the start of the phase, the reactions,
\* the themes and the phase history of the engine, a history with completed
\* phases included.
C27_CheckpointIsPersisted ==
    [][Saved =>
          /\ ret' = "none"
          /\ DOMAIN session_summary'
                = {"current_phase", "phase_start_time", "user_reactions",
                   "content_themes", "phase_history", "last_saved"}
          /\ session_summary'.current_phase = current_phase
          /\ session_summary'.user_reactions = user_reactions
          /\ session_summary'.content_themes = content_themes
          /\ session_summary'.phase_history = phase_history]_vars

\* The entries a snapshot holds.
Given(key) == session_summary # NoSummary /\ key \in DOMAIN session_summary

FourPhases == {"relationship", "reaction", "content", "coaching"}

\* The snapshot names a known phase and a start time that can be read.
WellFormed ==
    /\ Given("current_phase") => session_summary.current_phase \in FourPhases
    /\ Given("phase_start_time") =>
          IsIsoFormat(session_summary.phase_start_time)

\* C28: a restore from a well-formed snapshot that holds some entries only
\* (at least one) succeeds; of current_phase, phase_start_time,
\* user_reactions, content_themes and phase_history it overwrites those the
\* snapshot holds, with the values of the snapshot, and leaves the others,
\* the emotion history and the development plan as they were.
C28_RestoreOverwritesOnlyGivenFields ==
    [][(Restored /\ session_summary # NoSummary /\ WellFormed) =>
          /\ ret' = "True"
          /\ IF Given("current_phase")
             THEN current_phase' = session_summary.current_phase
             ELSE current_phase' = current_phase
          /\ IF Given("phase_start_time")
             THEN IsoFormat(phase_start_time')
                     = session_summary.phase_start_time
             ELSE phase_start_time' = phase_start_time
          /\ IF Given("user_reactions")
             THEN user_reactions' = session_summary.user_reactions
             ELSE user_reactions' = user_reactions
          /\ IF Given("content_themes")
             THEN content_themes' = session_summary.content_themes
             ELSE content_themes' = content_themes
          /\ IF Given("phase_history")
             THEN phase_history' = session_summary.phase_history
             ELSE phase_history' = phase_history
          /\ UNCHANGED <<emotional_states, development_plan>>]_vars

\* C28 happens: a snapshot that holds the phase alone was restored into an
\* engine in Reaction, which kept its start time, reaction, emotion and
\* phase history.
C28_Witness ==
    /\ op = "restore_session_state"
    /\ ret = "True"
    /\ DOMAIN session_summary = {"current_phase"}
    /\ current_phase = CONTENT
    /\ phase_start_time = 330
    /\ user_reactions = <<TEXT_GOAL>>
    /\ emotional_states # <<>>
    /\ Len(phase_history) = 1
    /\ phase_history[1].phase = RELATIONSHIP

\* C29: a restore from a snapshot whose phase is none of the four known
\* ones fails and leaves current_phase as it was; current_phase is one of
\* the four phases in every state.
C29_UnknownPhaseIsRejected ==
    /\ [](current_phase \in FourPhases)
    /\ [][(Restored /\ Given("current_phase")
              /\ session_summary.current_phase \notin FourPhases) =>
            (ret' = "False" /\ current_phase' = current_phase)]_vars

\* C29 happens: the restore of a snapshot with the phase 'closing' was
\* refused by an engine in Reaction.
C29_Witness ==
    /\ op = "restore_session_state"
    /\ ret = "False"
    /\ Given("current_phase")
    /\ session_summary.current_phase = "closing"
    /\ current_phase = REACTION
    /\ content_themes = <<>>

\* C40 (as claimed): a restore that returns False, because nothing is
\* stored or because a stored value such as the phase or phase_start_time
\* cannot be read, leaves every field of the conversation state as it was
\* before the call.
C40_FailedRestoreLeavesEngineUntouched ==
    [][(Restored /\ ret' = "False") => UNCHANGED state]_vars

-----------------------------------------------------------------------------
(* Properties of the phase prompt, checked under SpecRead *)

\* How often an emotion was heard in the last 60 s.
TimesInWindow(e) ==
    Cardinality({i \in DOMAIN InWindow : InWindow[i].emotion = e})

\* The headline of the adaptation block written for an emotion.
BlockOf(e) ==
    CASE e = "defensive" -> "DEFENSIVE"
      [] e = "frustrated" -> "FRUSTRATED"
      [] e = "sad" -> "SAD"
      [] e = "anxious" -> "ANXIOUS"
      [] e = "positive" -> "POSITIVE/OPEN"
      [] OTHER -> "NEUTRAL/CALM"

\* C30 (as claimed): get_phase_prompt(include_emotional_guidance=True)
\* returns the template of the current phase followed by the adaptation
\* block of an emotion heard most often in the last 60 s, and by the Neutral
\* block when no emotion was heard in that window; with False it returns
\* the template alone.
C30_PromptCarriesAdaptationBlock ==
    [][/\ (op' = "get_phase_prompt" /\ get_phase_prompt(TRUE)) =>
             /\ ret'.base_prompt = current_phase
             /\ IF InWindow = <<>>
                THEN ret'.emotional_guidance = "NEUTRAL/CALM"
                ELSE \E i \in DOMAIN InWindow :
                        /\ \A j \in DOMAIN InWindow :
                              TimesInWindow(InWindow[j].emotion)
                                 <= TimesInWindow(InWindow[i].emotion)
                        /\ ret'.emotional_guidance
                              = BlockOf(InWindow[i].emotion)
       /\ (op' = "get_phase_prompt" /\ get_phase_prompt(FALSE)) =>
             /\ ret'.base_prompt = current_phase
             /\ ret'.emotional_guidance = ""]_vars


\* The emotions heard most often in the last 60 s (several when they tie).
MostHeard ==
    {InWindow[i].emotion : i \in
        {k \in DOMAIN InWindow :
            \A j \in DOMAIN InWindow :
                TimesInWindow(InWindow[j].emotion)
                    <= TimesInWindow(InWindow[k].emotion)}}

SlowProfile(r) ==
    /\ r.pace = "slow"
    /\ r.pause_duration = "extended"
    /\ r.validation_level = "high"
    /\ r.complexity = "low"

NormalProfile(r) ==
    /\ r.pace = "normal"
    /\ r.pause_duration = "standard"
    /\ r.validation_level = "normal"
    /\ r.complexity = "normal"

-----------------------------------------------------------------------------
(* Properties of the session summary, checked under SpecRead *)

Summarized == op = "get_session_summary"

DistressedSet == {"defensive", "frustrated", "sad", "anxious"}

ReadySet == {"neutral", "positive"}

\* The first emotion recorded in the session is one of distress and the
\* last one is one of readiness.
DistressToReady ==
    /\ emotional_states # <<>>
    /\ emotional_states[1].emotion \in DistressedSet
    /\ emotional_states[Len(emotional_states)].emotion \in ReadySet

JourneyInsight == Insight("processed initial defensiveness", 0)

Placeholder == Insight("Session in progress", 0)

Holds(insights, insight) == \E i \in DOMAIN insights : insights[i] = insight

\* C32 (as claimed): the key insights of the session summary hold the
\* insight about moving from distress to readiness exactly when the first
\* recorded emotion is defensive, frustrated, sad or anxious and the last
\* recorded emotion is neutral or positive.
C32_JourneyInsightFromDistressToReady ==
    Summarized =>
        (Holds(ret.key_insights, JourneyInsight) <=> DistressToReady)

\* C33 (as claimed): the key insights of a summary are never empty; they
\* are the placeholder alone exactly when none of the four rules triggers
\* (a journey from distress to readiness, at least 3 content themes, a
\* development plan with a goal, at least 3 records of phase_history), and
\* the placeholder never stands beside another insight.
C33_PlaceholderOnlyWhenNoRuleTriggers ==
    Summarized =>
        /\ ret.key_insights # <<>>
        /\ ret.key_insights = <<Placeholder>> <=>
              ~ \/ DistressToReady
                \/ Len(content_themes) >= 3
                \/ development_plan.exists /\ Len(development_plan.goals) > 0
                \/ Len(phase_history) >= 3
        /\ Holds(ret.key_insights, Placeholder) =>
              Len(ret.key_insights) = 1

-----------------------------------------------------------------------------
(* Properties of R2C2Processor and its events, checked under SpecDriver *)

Events == SelectSeq(output, LAMBDA m : m.type = "r2c2-phase-transition")

C35_DrivenHistoryCountsPhasesLeft ==
    /\ Len(phase_history) <= 3
    /\ Len(phase_history) = PhaseIndex(current_phase) - 1
    /\ \A i \in DOMAIN phase_history : phase_history[i].phase # COACHING

\* C35 happens: a transcription is handled ten minutes and more into
\* Coaching, and the three records are still the only ones.
C35_Witness ==
    /\ op = "handle_user_transcription"
    /\ ret = "stay"
    /\ current_phase = COACHING
    /\ Elapsed >= 600
    /\ Len(phase_history) = 3

\* C36 (as claimed): the time_in_previous_phase of every
\* r2c2-phase-transition event is the time spent in the phase that was
\* left, the duration of the phase_history record written by the same
\* transition.
C36_EventCarriesTimeInPhaseLeft ==
    \A i \in DOMAIN Events :
        /\ i \in DOMAIN phase_history
        /\ phase_history[i].phase = Events[i].from_phase
        /\ Events[i].time_in_previous_phase = phase_history[i].duration

-----------------------------------------------------------------------------
(* Properties of the injected prompt, checked under SpecPipeline *)

IsFrame(m) == m.type = "LLMMessagesFrame"

IsEvent(m) == m.type = "r2c2-phase-transition"

\* The frame carries the prompt of the phase in its leading system message:
\* the block of the phase template is one of the blocks of the content.
CarriesPrompt(frame, phase) ==
    /\ frame.messages # <<>>
    /\ frame.messages[1].role = "system"
    /\ \E k \in DOMAIN frame.messages[1].content :
          frame.messages[1].content[k] = phase

\* The phase changed after every frame processed before output[i]: the
\* last of the messages before it is the event of a phase change.
FirstSinceChange(i) == i > 1 /\ IsEvent(output[i - 1])

\* A prompt was injected before output[i] and the phase has not changed
\* since: the message before it is a frame too, and a prompt is in one of
\* the frames since the last event.
InjectedAndSamePhase(i) ==
    /\ i > 1
    /\ IsFrame(output[i - 1])
    /\ \E j \in 1..(i - 1) :
          /\ IsFrame(output[j])
          /\ output[j].messages # output[j].given
          /\ \A k \in j..(i - 1) : IsFrame(output[k])

Processed == op = "inject_phase_context"

\* C37: the first LLMMessagesFrame processed after a phase change made by
\* the processor carries the prompt of the phase then current, the phase
\* the last event names as to_phase, in its leading system message; and a
\* frame processed when the phase has not changed since the last
\* injection, and no significant emotional shift is detected, is left as
\* it arrived.
C37_FrameAfterPhaseChangeCarriesPrompt ==
    /\ \A i \in DOMAIN output :
          (IsFrame(output[i]) /\ FirstSinceChange(i)) =>
              CarriesPrompt(output[i], output[i - 1].to_phase)
    /\ (/\ Processed
        /\ InjectedAndSamePhase(Len(output))
        /\ ~ShouldUpdateForEmotion(emotional_states, now)) =>
           output[Len(output)].messages = output[Len(output)].given

\* C37 happens: the session moved to Reaction, the next frame arrived with
\* a user message first and got the reaction prompt in a new leading
\* system message, and the frame after it was left as it arrived.
C37_Witness ==
    /\ Processed
    /\ Len(output) = 3
    /\ IsEvent(output[1])
    /\ output[1].to_phase = REACTION
    /\ IsFrame(output[2])
    /\ output[2].given # <<>>
    /\ output[2].given[1].role = "user"
    /\ CarriesPrompt(output[2], REACTION)
    /\ IsFrame(output[3])
    /\ output[3].given # <<>>
    /\ output[3].messages = output[3].given

-----------------------------------------------------------------------------
(* Properties of the emotions stored by EmotionProcessor, checked under    *)
(* SpecListening                                                           *)

\* The emotion state was classified Neutral or Positive by the detector.
ClassifiedReady(emotion_state) ==
    emotion_state.emotion \in {"NEUTRAL", "POSITIVE"}

\* C38 (as claimed): in Reaction, 180 s or more and less than 600 s into
\* the phase, when the three most recent emotion states that
\* EmotionProcessor stored within the last 60 s are all classified Neutral
\* or Positive, should_transition() returns true.
C38_StoredEmotionsDecideTransition ==
    (/\ Polled
     /\ current_phase = REACTION
     /\ Elapsed >= 180
     /\ Elapsed < 600
     /\ Len(InWindow) >= 3
     /\ \A i \in DOMAIN Sampled : ClassifiedReady(Sampled[i])) =>
        ret = TRUE

-----------------------------------------------------------------------------
(* Properties of the sessions of one process, checked under SpecProcess *)

\* C39 (as claimed): every database call a handler makes for a session,
\* a checkpoint or the end of the session, names the row of that session
\* and carries the state of the engine of that session, however the
\* handlers of two sessions alive in the process interleave.
C39_EveryWriteIsForItsOwnSession ==
    \A i \in DOMAIN db_calls :
        /\ db_calls[i].session_id = bots[db_calls[i].by].session_id
        /\ db_calls[i].engine = db_calls[i].by

====
